---------------------------- MODULE Spec2Model ----------------------------
(***************************************************************************)
(* Model of quantum_gaussian_toolbox.py: the gaussian_state class (its     *)
(* constructors, tensor_product, partial_trace, only_modes, the Gaussian   *)
(* unitaries and the conditional measurements).                            *)
(*                                                                         *)
(* Numbers are fixed-point: the integer n stands for the real n / Q.       *)
(* numpy arrays are records that carry a buffer identity `id`, so that two *)
(* attributes bound to the same array object are visible as such.  numpy   *)
(* indices are 0-based, TLA+ sequences 1-based: position k of an array is  *)
(* element k+1 of its sequence.                                            *)
(***************************************************************************)
EXTENDS Integers, Sequences, FiniteSets, TLC

VARIABLES objs, last, trail, dyn

vars == <<objs, last, trail, dyn>>

\* ------------------------------------------------------------------ bounds
Q == 4            \* fixed-point denominator: values are multiples of 1/Q
MaxObjs == 2      \* gaussian_state instances alive at once
MaxCtor == 1      \* of which built by a direct constructor call
MaxLen == 6       \* longest R0 handed to the explicit constructor
MaxList == 2      \* longest rho_list / index list / parameter list
MaxTrail == 2     \* unitary calls made on (and remembered for) an instance

\* ------------------------------------------------------------ arithmetic
\* the sequence s as an explicit tuple (every element computed once)
Tup(s) == s \o <<>>

Abs(x) == IF x < 0 THEN -x ELSE x
Min(a, b) == IF a < b THEN a ELSE b
Max(a, b) == IF a > b THEN a ELSE b
Sgn(x) == IF x < 0 THEN -1 ELSE IF x > 0 THEN 1 ELSE 0

\* C-style truncating division (numpy's float -> int cast rounds toward zero)
TruncDiv(a, b) == Sgn(a) * Sgn(b) * (Abs(a) \div Abs(b))

\* nearest-value division, for products and quotients of fixed-point numbers
RoundDiv(a, b) == Sgn(a) * Sgn(b) * ((2 * Abs(a) + Abs(b)) \div (2 * Abs(b)))

Div(a, b) == RoundDiv(a * Q, b)

\* astype(int) of a float: the fractional part is dropped
TruncToInt(x) == Q * TruncDiv(x, Q)

\* the value stored when `x` is written into an array of the given dtype
Store(isInt, x) == IF isInt THEN TruncToInt(x) ELSE x

RECURSIVE SumSeq(_)
SumSeq(s) == IF s = <<>> THEN 0 ELSE Head(s) + SumSeq(Tail(s))

\* np.exp on a fixed-point argument: Taylor series, rounded to 1/Q
ExpScale == 10000
RECURSIVE ExpTerms(_, _, _)
ExpTerms(x, k, term) ==
    IF k > 14 THEN 0
    ELSE LET rest == {ExpTerms(x, k + 1, next) : next \in {TruncDiv(term * x, Q * (k + 1))}}
         IN  term + (CHOOSE r \in rest : TRUE)
np_exp(x) == RoundDiv(ExpTerms(x, 0, ExpScale) * Q, ExpScale)

\* -------------------------------------------------------------- matrices
Zeros(r, c) == Tup([i \in 1..r |-> Tup([j \in 1..c |-> 0])])
Eye(n) == Tup([i \in 1..n |-> Tup([j \in 1..n |-> IF i = j THEN Q ELSE 0])])
Rows(M) == Len(M)
Cols(M) == IF Len(M) = 0 THEN 0 ELSE Len(M[1])
Transpose(M) == Tup([j \in 1..Cols(M) |-> Tup([i \in 1..Rows(M) |-> M[i][j]])])
MatMul(A, B) ==
    Tup([i \in 1..Rows(A) |-> Tup([j \in 1..Cols(B) |->
        RoundDiv(SumSeq([k \in 1..Cols(A) |-> A[i][k] * B[k][j]]), Q)])])
MatVec(A, v) ==
    Tup([i \in 1..Rows(A) |->
        RoundDiv(SumSeq([k \in 1..Len(v) |-> A[i][k] * v[k]]), Q)])
MatSub(A, B) == Tup([i \in 1..Rows(A) |-> Tup([j \in 1..Cols(A) |-> A[i][j] - B[i][j]])])
MatAdd(A, B) == Tup([i \in 1..Rows(A) |-> Tup([j \in 1..Cols(A) |-> A[i][j] + B[i][j]])])
VecSub(u, v) == Tup([i \in 1..Len(u) |-> u[i] - v[i]])

\* scipy.linalg.block_diag(A, B)
block_diag(A, B) ==
    Tup([i \in 1..(Rows(A) + Rows(B)) |-> Tup([j \in 1..(Cols(A) + Cols(B)) |->
        IF i <= Rows(A) /\ j <= Cols(A) THEN A[i][j]
        ELSE IF i > Rows(A) /\ j > Cols(A) THEN B[i - Rows(A)][j - Cols(A)]
        ELSE 0])])

\* np.kron(np.eye(n, dtype=int), omega) with omega = [[0, 1], [-1, 0]]
Kron(n) ==
    Tup([i \in 1..(2 * n) |-> Tup([j \in 1..(2 * n) |->
        IF (i + 1) \div 2 # (j + 1) \div 2 THEN 0
        ELSE IF i % 2 = 1 /\ j % 2 = 0 THEN 1
        ELSE IF i % 2 = 0 /\ j % 2 = 1 THEN -1
        ELSE 0])])

\* ------------------------------------------------------- Python slicing
\* a[lo:hi] on an axis of length n: the 1-based positions it selects
SliceNorm(n, x) == IF x < 0 THEN Max(x + n, 0) ELSE Min(x, n)
SlicePos(n, lo, hi) ==
    LET a == SliceNorm(n, lo)
        b == SliceNorm(n, hi)
    IN  Tup([k \in 1..(IF b > a THEN b - a ELSE 0) |-> a + k])

\* numpy broadcasting of a source axis of length s onto a target axis of length t
Broadcasts(s, t) == s = t \/ s = 1

\* target[tlo:thi] = source[slo:shi] on column vectors; ok = FALSE is the
\* ValueError "could not broadcast input array"
SetSlice1(target, tlo, thi, source, slo, shi) ==
    LET tp == SlicePos(Len(target), tlo, thi)
        sp == SlicePos(Len(source), slo, shi)
        pick(k) == IF Len(sp) = 1 THEN source[sp[1]] ELSE source[sp[k]]
    IN  IF ~Broadcasts(Len(sp), Len(tp)) THEN [ok |-> FALSE, val |-> target]
        ELSE [ok |-> TRUE,
              val |-> Tup([i \in 1..Len(target) |->
                        IF \E k \in 1..Len(tp) : tp[k] = i
                        THEN pick(CHOOSE k \in 1..Len(tp) : tp[k] = i)
                        ELSE target[i]])]

\* target[tr0:tr1, tc0:tc1] = source[sr0:sr1, sc0:sc1] on matrices
SetSlice2(target, tr0, tr1, tc0, tc1, source, sr0, sr1, sc0, sc1) ==
    LET tr == SlicePos(Rows(target), tr0, tr1)
        tc == SlicePos(Cols(target), tc0, tc1)
        sr == SlicePos(Rows(source), sr0, sr1)
        sc == SlicePos(Cols(source), sc0, sc1)
        pr(k) == IF Len(sr) = 1 THEN sr[1] ELSE sr[k]
        pc(k) == IF Len(sc) = 1 THEN sc[1] ELSE sc[k]
    IN  IF ~(Broadcasts(Len(sr), Len(tr)) /\ Broadcasts(Len(sc), Len(tc)))
        THEN [ok |-> FALSE, val |-> target]
        ELSE [ok |-> TRUE,
              val |-> Tup([i \in 1..Rows(target) |-> Tup([j \in 1..Cols(target) |->
                        IF (\E k \in 1..Len(tr) : tr[k] = i)
                           /\ (\E l \in 1..Len(tc) : tc[l] = j)
                        THEN source[pr(CHOOSE k \in 1..Len(tr) : tr[k] = i)]
                                   [pc(CHOOSE l \in 1..Len(tc) : tc[l] = j)]
                        ELSE target[i][j]])])]

\* source[r0:r1, c0:c1]
GetSlice2(source, r0, r1, c0, c1) ==
    LET sr == SlicePos(Rows(source), r0, r1)
        sc == SlicePos(Cols(source), c0, c1)
    IN  Tup([i \in 1..Len(sr) |-> Tup([j \in 1..Len(sc) |-> source[sr[i]][sc[j]]])])

\* ------------------------------------------------------------- the heap
NewId == 0        \* placeholder: an array freshly allocated by the call

UsedIds == {objs[i].Rid : i \in 1..Len(objs)} \cup {objs[i].Vid : i \in 1..Len(objs)}
FreshId(used) ==
    CHOOSE n \in 1..(Cardinality(used) + 1) : n \notin used /\ \A m \in 1..(n - 1) : m \in used


\* ------------------------------------------------------- Python values
\* a scalar or string argument; t is the Python type name
PyVal(t, s, re, im) == [t |-> t, s |-> s, re |-> re, im |-> im]
Str(s) == PyVal("str", s, 0, 0)
PyInt(n) == PyVal("int", "", n * Q, 0)
PyFloat(x) == PyVal("float", "", x, 0)
PyComplex(x, y) == PyVal("complex", "", x, y)
NoArg == PyVal("absent", "", 0, 0)
AnArray == PyVal("ndarray", "", 0, 0)

\* a numpy vector of shape (rows, cols): data holds the first column
VecArr(rows, cols, data, isInt, isReal) ==
    [rows |-> rows, cols |-> cols, data |-> data, int |-> isInt, real |-> isReal]
\* a numpy array of shape (rows, cols); id is the buffer it lives in
MatArr(id, rows, cols, data) == [id |-> id, rows |-> rows, cols |-> cols, data |-> data]
NoVec == VecArr(0, 0, <<>>, FALSE, TRUE)
NoMat == MatArr(NewId, 0, 0, <<>>)

\* the argument tuple *args of gaussian_state(...)
Args(n, a0, a1, R0, V0) == [n |-> n, a0 |-> a0, a1 |-> a1, R0 |-> R0, V0 |-> V0]

\* np.squeeze(a).ndim for a two-axis array
SqueezeNdim(rows, cols) == (IF rows # 1 THEN 1 ELSE 0) + (IF cols # 1 THEN 1 ELSE 0)

\* a constructed instance, before its arrays are given buffer identities
Built(R, isInt, Vid, V, N) ==
    [ok |-> TRUE, err |-> "", R |-> R, Rint |-> isInt, Vid |-> Vid, V |-> V,
     N_modes |-> N, Omega |-> Kron(N)]
Failed(e) ==
    [ok |-> FALSE, err |-> e, R |-> <<>>, Rint |-> FALSE, Vid |-> NewId, V |-> <<>>,
     N_modes |-> 0, Omega |-> <<>>]

Diag2(a, b) == <<<<a, 0>>, <<0, b>>>>

\* decide_which_state with the coherent mean not doubled
decide_which_state_undoubled(varargin) ==
    LET type_state == varargin.a0.s
        p == varargin.a1
    IN  IF type_state = "vacuum" THEN Built(<<0, 0>>, TRUE, NewId, Eye(2), 1)
        ELSE IF ~(varargin.n > 1) THEN Failed("AssertionError")
        ELSE IF p.t \notin {"int", "float", "complex"} THEN Failed("AssertionError")
        ELSE IF type_state = "thermal" THEN
            IF p.t = "complex" THEN Failed("TypeError")
            ELSE IF ~(p.re >= 0) THEN Failed("AssertionError")
            ELSE Built(<<0, 0>>, TRUE, NewId, Diag2(2 * p.re + Q, 2 * p.re + Q), 1)
        ELSE IF type_state = "coherent" THEN
            Built(<<p.re, p.im>>, p.t = "int", NewId, Eye(2), 1)
        ELSE IF type_state = "squeezed" THEN
            IF p.im # 0 THEN Failed("AssertionError")
            ELSE Built(<<0, 0>>, TRUE, NewId,
                       Diag2(np_exp(-2 * p.re), np_exp(2 * p.re)), 1)
        ELSE Failed("ValueError")

\* gaussian_state.decide_which_state
decide_which_state(varargin) ==
    LET type_state == varargin.a0.s
        p == varargin.a1
    IN  IF type_state = "vacuum" THEN Built(<<0, 0>>, TRUE, NewId, Eye(2), 1)
        ELSE IF ~(varargin.n > 1) THEN Failed("AssertionError")
        ELSE IF p.t \notin {"int", "float", "complex"} THEN Failed("AssertionError")
        ELSE IF type_state = "thermal" THEN
            IF p.t = "complex" THEN Failed("TypeError")
            ELSE IF ~(p.re >= 0) THEN Failed("AssertionError")
            ELSE Built(<<0, 0>>, TRUE, NewId, Diag2(2 * p.re + Q, 2 * p.re + Q), 1)
        ELSE IF type_state = "coherent" THEN
            Built(<<2 * p.re, 2 * p.im>>, p.t = "int", NewId, Eye(2), 1)
        ELSE IF type_state = "squeezed" THEN
            IF p.im # 0 THEN Failed("AssertionError")
            ELSE Built(<<0, 0>>, TRUE, NewId,
                       Diag2(np_exp(-2 * p.re), np_exp(2 * p.re)), 1)
        ELSE Failed("ValueError")

\* the explicit (R0, V0) branch of gaussian_state.__init__
init_moments(R0, V0) ==
    LET R_is_real == R0.real
        R_is_vector == SqueezeNdim(R0.rows, R0.cols) = 1
        V_is_matrix == SqueezeNdim(V0.rows, V0.cols) = 2
        V_is_square == V0.rows = V0.cols
        R_and_V_match == R0.rows = V0.rows
    IN  IF R0.rows > 0 /\ R0.cols > 1 THEN Failed("ValueError")   \* all() of 2-d rows
        ELSE IF ~(R_is_real /\ R_is_vector /\ V_is_matrix /\ R_and_V_match /\ V_is_square)
        THEN Failed("AssertionError")
        ELSE IF R0.rows = 0 THEN Failed("ValueError")             \* np.vstack of nothing
        ELSE Built(R0.data, R0.int, V0.id, V0.data, R0.rows \div 2)

\* the constructor falling back to the vacuum on unexpected arguments
gaussian_state_lenient(args) ==
    IF args.n = 0 THEN Built(<<0, 0>>, TRUE, NewId, Eye(2), 1)
    ELSE IF args.a0.t = "str" THEN decide_which_state(args)
    ELSE IF args.a0.t = "ndarray" /\ args.n < 2 THEN Failed("IndexError")
    ELSE IF args.a0.t = "ndarray" /\ args.a1.t = "ndarray"
    THEN init_moments(args.R0, args.V0)
    ELSE Built(<<0, 0>>, TRUE, NewId, Eye(2), 1)

\* gaussian_state.__init__
gaussian_state(args) ==
    IF args.n = 0 THEN Built(<<0, 0>>, TRUE, NewId, Eye(2), 1)
    ELSE IF args.a0.t = "str" THEN decide_which_state(args)
    ELSE IF args.a0.t = "ndarray" /\ args.n < 2 THEN Failed("IndexError")
    ELSE IF args.a0.t = "ndarray" /\ args.a1.t = "ndarray"
    THEN init_moments(args.R0, args.V0)
    ELSE Failed("ValueError")

\* gaussian_state(R0, V0) as the methods call it: R0 a (len, 1) column
from_moments(R, isInt, Vid, V, vrows, vcols) ==
    gaussian_state(Args(2, AnArray, AnArray,
                        VecArr(Len(R), 1, R, isInt, TRUE),
                        MatArr(Vid, vrows, vcols, V)))

\* the instance as it sits on the heap: its arrays bound to buffers; `made`
\* records whether a constructor call or a method of the class built it
Alloc(b, used, made) ==
    LET rid == FreshId(used)
        vid == IF b.Vid = NewId THEN FreshId(used \cup {rid}) ELSE b.Vid
    IN  [Rid |-> rid, R |-> b.R, Rint |-> b.Rint, Vid |-> vid, V |-> b.V,
         N_modes |-> b.N_modes, Omega |-> b.Omega, made |-> made]

\* ------------------------------------------------------ state algebra
\* np.vstack / block_diag accumulation of tensor_product's loop
RECURSIVE StackR(_, _)
StackR(R_final, rhos) ==
    IF rhos = <<>> THEN R_final ELSE StackR(R_final \o Head(rhos).R, Tail(rhos))
RECURSIVE StackV(_, _)
StackV(V_final, rhos) ==
    IF rhos = <<>> THEN V_final ELSE StackV(block_diag(V_final, Head(rhos).V), Tail(rhos))

\* a tensor product that puts the operands before the base state
tensor_product_reversed(self, rho_list) ==
    IF rho_list = <<>> THEN from_moments(self.R, self.Rint, self.Vid, self.V,
                                         Rows(self.V), Cols(self.V))
    ELSE LET R_final == StackR(Head(rho_list).R, Tail(rho_list) \o <<self>>)
             V_final == StackV(Head(rho_list).V, Tail(rho_list) \o <<self>>)
             isInt == self.Rint /\ \A k \in 1..Len(rho_list) : rho_list[k].Rint
         IN  from_moments(R_final, isInt, NewId, V_final, Rows(V_final), Cols(V_final))

\* gaussian_state.tensor_product; rho_list is a sequence of instances
tensor_product(self, rho_list) ==
    LET R_final == StackR(self.R, rho_list)
        V_final == StackV(self.V, rho_list)
        isInt == self.Rint /\ \A k \in 1..Len(rho_list) : rho_list[k].Rint
        Vid == IF rho_list = <<>> THEN self.Vid ELSE NewId
    IN  from_moments(R_final, isInt, Vid, V_final, Rows(V_final), Cols(V_final))

\* the block-copy loops shared by partial_trace and only_modes: for each i,
\* R0[2i:2i+2] = self.R[2m:2m+2], then for each j the 2x2 block of V
RECURSIVE CopyCols(_, _, _, _, _)
CopyCols(self, modes, i, j, V0) ==
    IF j >= Len(modes) THEN [ok |-> TRUE, val |-> V0]
    ELSE LET m == modes[i + 1]
             n == modes[j + 1]
             w == SetSlice2(V0, 2 * i, 2 * i + 2, 2 * j, 2 * j + 2,
                            self.V, 2 * m, 2 * m + 2, 2 * n, 2 * n + 2)
         IN  IF ~w.ok THEN w ELSE CopyCols(self, modes, i, j + 1, w.val)
RECURSIVE CopyBlocks(_, _, _, _, _)
CopyBlocks(self, modes, i, R0, V0) ==
    IF i >= Len(modes) THEN [ok |-> TRUE, R |-> R0, V |-> V0]
    ELSE LET m == modes[i + 1]
             r == SetSlice1(R0, 2 * i, 2 * i + 2, self.R, 2 * m, 2 * m + 2)
             v == CopyCols(self, modes, i, 0, V0)
         IN  IF ~r.ok \/ ~v.ok THEN [ok |-> FALSE, R |-> R0, V |-> V0]
             ELSE CopyBlocks(self, modes, i + 1, r.val, v.val)

\* modes[entries]: the modes of np.arange(N_modes) that are not in indexes
RECURSIVE Surviving(_, _, _)
Surviving(k, N, indexes) ==
    IF k >= N THEN <<>>
    ELSE (IF \E q \in 1..Len(indexes) : indexes[q] = k THEN <<>> ELSE <<k>>)
         \o Surviving(k + 1, N, indexes)

\* gaussian_state.partial_trace
partial_trace(self, indexes) ==
    LET N_A == Len(self.R) - 2 * Len(indexes)
        modes == Surviving(0, self.N_modes, indexes)
    IN  IF ~(N_A >= 0) THEN Failed("AssertionError")
        ELSE LET c == CopyBlocks(self, modes, 0, Tup([k \in 1..N_A |-> 0]), Zeros(N_A, N_A))
             IN  IF ~c.ok THEN Failed("ValueError")
                 ELSE from_moments(c.R, FALSE, NewId, c.V, N_A, N_A)

\* the listed modes in ascending order
Ascending(indexes) ==
    CHOOSE t \in [1..Len(indexes) -> {indexes[k] : k \in 1..Len(indexes)}] :
        /\ \A k \in 1..(Len(indexes) - 1) : t[k] <= t[k + 1]
        /\ \A x \in {indexes[k] : k \in 1..Len(indexes)} :
             Cardinality({k \in 1..Len(indexes) : t[k] = x})
               = Cardinality({k \in 1..Len(indexes) : indexes[k] = x})

\* a submode extraction that keeps the listed modes in ascending mode order,
\* as partial_trace does, instead of the order given
only_modes_ascending(self, indexes) ==
    LET N_A == Len(indexes)
    IN  IF ~(N_A > 0 /\ N_A <= self.N_modes) THEN Failed("AssertionError")
        ELSE LET c == CopyBlocks(self, Ascending(indexes), 0, Tup([k \in 1..(2 * N_A) |-> 0]),
                                 Zeros(2 * N_A, 2 * N_A))
             IN  IF ~c.ok THEN Failed("ValueError")
                 ELSE from_moments(c.R, FALSE, NewId, c.V, 2 * N_A, 2 * N_A)

\* gaussian_state.only_modes
only_modes(self, indexes) ==
    LET N_A == Len(indexes)
    IN  IF ~(N_A > 0 /\ N_A <= self.N_modes) THEN Failed("AssertionError")
        ELSE LET c == CopyBlocks(self, indexes, 0, Tup([k \in 1..(2 * N_A) |-> 0]),
                                 Zeros(2 * N_A, 2 * N_A))
             IN  IF ~c.ok THEN Failed("ValueError")
                 ELSE from_moments(c.R, FALSE, NewId, c.V, 2 * N_A, 2 * N_A)

\* ------------------------------------------------------------ unitaries
\* a parameter or mode argument as Python passes it: a bare scalar, a list
\* or an np.ndarray of shape (len,)
Param(kind, vals) == [kind |-> kind, vals |-> vals]

\* the `if not isinstance(x, list) or isinstance(x, np.ndarray): x = [x]` wrap
AsList(p) == IF p.kind = "scalar" THEN Param("list", p.vals) ELSE p

\* the loop of gaussian_state.displace from position i on; R is written in place
RECURSIVE DisplaceFrom(_, _, _, _, _)
DisplaceFrom(R, isInt, alpha, modes, i) ==
    IF i >= Len(alpha) THEN [ok |-> TRUE, err |-> "", R |-> R]
    ELSE LET idx == modes[i + 1]
             d == <<2 * alpha[i + 1].re, 2 * alpha[i + 1].im>>
             pos == SlicePos(Len(R), 2 * idx, 2 * idx + 2)
         IN  IF Len(pos) # 2 THEN [ok |-> FALSE, err |-> "ValueError", R |-> R]
             ELSE DisplaceFrom(Tup([k \in 1..Len(R) |->
                                  IF k = pos[1] THEN Store(isInt, R[k] + d[1])
                                  ELSE IF k = pos[2] THEN Store(isInt, R[k] + d[2])
                                  ELSE R[k]]),
                               isInt, alpha, modes, i + 1)

\* gaussian_state.displace: the contents of self.R after the call
displace(self, alpha0, modes0) ==
    LET alpha == AsList(alpha0).vals
        modes == AsList(modes0).vals
    IN  IF Len(modes) # Len(alpha) THEN [ok |-> FALSE, err |-> "AssertionError", R |-> self.R]
        ELSE DisplaceFrom(self.R, self.Rint, alpha, modes, 0)

\* np.sqrt of a fixed-point number in [0, inf), rounded to 1/Q
np_sqrt(x) ==
    CHOOSE r \in 0..(x * Q + 1) :
        /\ (r = 0 \/ (2 * r - 1) * (2 * r - 1) <= 4 * x * Q)
        /\ 4 * x * Q < (2 * r + 1) * (2 * r + 1)

\* f(tau) * np.identity(2) for a tau of shape (1,) or (2,)
TimesIdentity2(v) ==
    LET at(c) == IF Len(v) = 1 THEN v[1] ELSE v[c]
    IN  Tup([r \in 1..2 |-> Tup([c \in 1..2 |-> IF r = c THEN at(c) ELSE 0])])

Neg(M) == Tup([i \in 1..Rows(M) |-> Tup([j \in 1..Cols(M) |-> -M[i][j]])])

\* target[2a:2a+2, 2b:2b+2] = block
SetBlock(target, a, b, block) ==
    SetSlice2(target, 2 * a, 2 * a + 2, 2 * b, 2 * b + 2, block, 0, 2, 0, 2)

\* gaussian_state.beam_splitter: the new self.R and self.V
beam_splitter(self, tau0, modes0) ==
    LET tau == AsList(tau0)
        modes == AsList(modes0).vals
        keep(e) == [ok |-> FALSE, err |-> e, R |-> self.R, V |-> self.V]
    IN  IF Len(modes) # 2 THEN keep("AssertionError")
        ELSE IF Len(tau.vals) \notin {1, 2} THEN keep("ValueError")
        ELSE IF tau.kind = "list" THEN keep("TypeError")     \* 1 - tau on a list
        ELSE LET i == modes[1]
                 j == modes[2]
                 B == TimesIdentity2(Tup([k \in 1..Len(tau.vals) |-> np_sqrt(tau.vals[k])]))
                 S == TimesIdentity2(Tup([k \in 1..Len(tau.vals) |-> np_sqrt(Q - tau.vals[k])]))
                 b1 == SetBlock(Eye(2 * self.N_modes), i, i, B)
                 b2 == SetBlock(b1.val, j, j, B)
                 b3 == SetBlock(b2.val, i, j, S)
                 b4 == SetBlock(b3.val, j, i, Neg(S))
             IN  IF ~(b1.ok /\ b2.ok /\ b3.ok /\ b4.ok) THEN keep("ValueError")
                 ELSE IF Cols(b4.val) # Len(self.R) \/ Cols(b4.val) # Rows(self.V)
                         \/ Cols(self.V) # Rows(b4.val)
                 THEN keep("ValueError")                     \* np.matmul shape mismatch
                 ELSE [ok |-> TRUE, err |-> "",
                       R |-> MatVec(b4.val, self.R),
                       V |-> MatMul(MatMul(b4.val, self.V), Transpose(b4.val))]

\* ------------------------------------- squeeze, rotate, two_mode_squeezing
\* the outcome of a transform that raised: the moments are as they were
Kept(self, e) == [ok |-> FALSE, err |-> e, R |-> self.R, V |-> self.V]

\* self.R = np.matmul(T, self.R); self.V = np.matmul(np.matmul(T, self.V), T_T)
\* for the built matrix T (ok = FALSE: a slice write into T raised)
ApplyTransform(self, T, T_T) ==
    IF ~T.ok THEN Kept(self, "ValueError")
    ELSE IF Cols(T.val) # Len(self.R) \/ Cols(T.val) # Rows(self.V)
            \/ Cols(self.V) # Rows(T.val)
    THEN Kept(self, "ValueError")                     \* np.matmul shape mismatch
    ELSE [ok |-> TRUE, err |-> "",
          R |-> MatVec(T.val, self.R),
          V |-> MatMul(MatMul(T.val, self.V), T_T)]

\* the loop of squeeze: S[2*idx:2*idx+2, 2*idx:2*idx+2] = diag(e^-r, e^r)
RECURSIVE SqueezeMatrix(_, _, _, _)
SqueezeMatrix(S, r, modes, i) ==
    IF i > Len(r) \/ ~S.ok THEN S
    ELSE SqueezeMatrix(SetBlock(S.val, modes[i], modes[i],
                                Diag2(np_exp(-r[i]), np_exp(r[i]))),
                       r, modes, i + 1)

\* squeeze applying S on the left of V only
SqueezeWith_onesided(self, S) == ApplyTransform(self, S, Eye(Rows(self.V)))

SqueezeWith(self, S) == ApplyTransform(self, S, S.val)

\* squeeze without its length check: the shorter list decides
squeeze_unchecked(self, r0, modes0) ==
    SqueezeWith(self, SqueezeMatrix([ok |-> TRUE, val |-> Eye(2 * self.N_modes)],
                                    SubSeq(AsList(r0).vals, 1,
                                           Min(Len(AsList(r0).vals), Len(AsList(modes0).vals))),
                                    AsList(modes0).vals, 1))

\* gaussian_state.squeeze: the new self.R and self.V
squeeze(self, r0, modes0) ==
    IF Len(AsList(modes0).vals) # Len(AsList(r0).vals) THEN Kept(self, "AssertionError")
    ELSE SqueezeWith(self, SqueezeMatrix([ok |-> TRUE, val |-> Eye(2 * self.N_modes)],
                                         AsList(r0).vals, AsList(modes0).vals, 1))

\* cos(theta/2) and sin(theta/2) for theta = k * pi/2 (k quarter turns)
HalfSqrt2 == RoundDiv(np_sqrt(2 * Q), 2)
CosHalf(k) ==
    LET c == <<Q, HalfSqrt2, 0, -HalfSqrt2, -Q, -HalfSqrt2, 0, HalfSqrt2>>
    IN  c[(k % 8) + 1]
SinHalf(k) == CosHalf(k - 2)

\* the loop of rotate: Rot[...] = [[cos, sin], [-sin, cos]] of theta[i]/2
RECURSIVE RotationMatrix(_, _, _, _)
RotationMatrix(Rot, theta, modes, i) ==
    IF i > Len(theta) \/ ~Rot.ok THEN Rot
    ELSE RotationMatrix(SetBlock(Rot.val, modes[i], modes[i],
                                 <<<<CosHalf(theta[i]), SinHalf(theta[i])>>,
                                   <<-SinHalf(theta[i]), CosHalf(theta[i])>>>>),
                        theta, modes, i + 1)

RotateWith(self, Rot) == ApplyTransform(self, Rot, Transpose(Rot.val))

\* gaussian_state.rotate: the new self.R and self.V
rotate(self, theta0, modes0) ==
    IF Len(AsList(modes0).vals) # Len(AsList(theta0).vals) THEN Kept(self, "AssertionError")
    ELSE RotateWith(self, RotationMatrix([ok |-> TRUE, val |-> Eye(2 * self.N_modes)],
                                         AsList(theta0).vals, AsList(modes0).vals, 1))

\* np.cosh and np.sinh
np_cosh(x) == RoundDiv(np_exp(x) + np_exp(-x), 2)
np_sinh(x) == RoundDiv(np_exp(x) - np_exp(-x), 2)

\* v * np.diag([+1, -1]) for the array v
TimesDiagPlusMinus(v) ==
    LET at(c) == IF Len(v) = 1 THEN v[1] ELSE v[c]
    IN  <<<<at(1), 0>>, <<0, -at(2)>>>>

\* the slice writes of two_mode_squeezing aimed at the mode next to the first
TwoModeMatrix_neighbour(N, i, j, S0, S1) ==
    LET n == (i + 1) % N
        b1 == SetBlock(Eye(2 * N), i, i, S0)
        b2 == SetBlock(b1.val, n, n, S0)
        b3 == SetBlock(b2.val, i, n, S1)
        b4 == SetBlock(b3.val, n, i, S1)
    IN  [ok |-> b1.ok /\ b2.ok /\ b3.ok /\ b4.ok, val |-> b4.val]

\* the four slice writes into S2
TwoModeMatrix(N, i, j, S0, S1) ==
    LET b1 == SetBlock(Eye(2 * N), i, i, S0)
        b2 == SetBlock(b1.val, j, j, S0)
        b3 == SetBlock(b2.val, i, j, S1)
        b4 == SetBlock(b3.val, j, i, S1)
    IN  [ok |-> b1.ok /\ b2.ok /\ b3.ok /\ b4.ok, val |-> b4.val]

TwoModeWith(self, S2) == ApplyTransform(self, S2, Transpose(S2.val))

\* gaussian_state.two_mode_squeezing: the new self.R and self.V
two_mode_squeezing(self, r0, modes0) ==
    LET r == AsList(r0).vals
        modes == AsList(modes0).vals
    IN  IF Len(modes) # 2 THEN Kept(self, "AssertionError")
        ELSE IF Len(r) \notin {1, 2} THEN Kept(self, "ValueError")
        ELSE TwoModeWith(self,
                 TwoModeMatrix(self.N_modes, modes[1], modes[2],
                               TimesIdentity2(Tup([k \in 1..Len(r) |-> np_cosh(r[k])])),
                               TimesDiagPlusMinus(Tup([k \in 1..Len(r) |-> np_sinh(r[k])]))))

\* --------------------------------------------------------- measurements
\* M without row i and column j
Minor(M, i, j) ==
    Tup([r \in 1..(Rows(M) - 1) |-> Tup([c \in 1..(Cols(M) - 1) |->
        M[IF r < i THEN r ELSE r + 1][IF c < j THEN c ELSE c + 1]])])

\* determinant of the integer matrix, by expansion along the first row
RECURSIVE Det(_)
Det(M) ==
    IF Rows(M) = 0 THEN 1
    ELSE IF Rows(M) = 1 THEN M[1][1]
    ELSE SumSeq([j \in 1..Cols(M) |->
            IF M[1][j] = 0 THEN 0
            ELSE (IF j % 2 = 1 THEN 1 ELSE -1) * M[1][j] * Det(Minor(M, 1, j))])

\* np.linalg.inv: adjugate over determinant; ok = FALSE is LinAlgError
np_inv(M) ==
    IF Rows(M) # Cols(M) THEN [ok |-> FALSE, val |-> M]
    ELSE LET d == Det(M)
         IN  IF d = 0 THEN [ok |-> FALSE, val |-> M]
             ELSE [ok |-> TRUE,
                   val |-> Tup([i \in 1..Rows(M) |-> Tup([j \in 1..Cols(M) |->
                       RoundDiv((IF (i + j) % 2 = 0 THEN 1 ELSE -1)
                                * Det(Minor(M, j, i)) * Q * Q, d)])])]

\* range(lo, hi)
PyRange(lo, hi) == Tup([k \in 1..(IF hi > lo THEN hi - lo ELSE 0) |-> lo + k - 1])

\* range(int(self.N_modes - len(R_m)/2), self.N_modes)
idx_modes(self, lenRm) == PyRange(TruncDiv(2 * self.N_modes - lenRm, 2), self.N_modes)

\* the conditional state handed back: partial_trace's instance with R and V rebound
Conditional(rho_A, R, V) ==
    [rho_A EXCEPT !.R = R, !.Rint = FALSE, !.V = V, !.Vid = NewId]

\* rho_A.R - V_AB.W.dR and rho_A.V - V_AB.W.V_AB^T, for the weight matrix W
SchurUpdate(rho_A, V_AB, W, dR) ==
    IF Cols(V_AB) # Rows(W) \/ Cols(W) # Len(dR) \/ Rows(V_AB) # Len(rho_A.R)
       \/ Rows(V_AB) # Rows(rho_A.V)
    THEN Failed("ValueError")                       \* np.matmul shape mismatch
    ELSE Conditional(rho_A,
                     VecSub(rho_A.R, MatVec(V_AB, MatVec(W, dR))),
                     MatSub(rho_A.V, MatMul(V_AB, MatMul(W, Transpose(V_AB)))))

\* the update of measurement_general once rho_B and rho_A are at hand
GeneralUpdate(self, rho_B, rho_A, inv_aux, R_m) ==
    IF ~inv_aux.ok THEN Failed("LinAlgError")
    ELSE IF Len(rho_B.R) # Len(R_m) THEN Failed("ValueError")
    ELSE SchurUpdate(rho_A,
                     GetSlice2(self.V, 0, 2 * rho_A.N_modes, 2 * rho_A.N_modes,
                               2 * rho_A.N_modes + 2 * rho_B.N_modes),
                     inv_aux.val, VecSub(rho_B.R, R_m))

GeneralSplit(self, rho_B, rho_A, R_m, V_m) ==
    IF ~rho_B.ok THEN rho_B
    ELSE IF ~rho_A.ok THEN rho_A
    ELSE IF Rows(rho_B.V) # Rows(V_m) \/ Cols(rho_B.V) # Cols(V_m)
    THEN Failed("ValueError")                       \* rho_B.V + V_m
    ELSE GeneralUpdate(self, rho_B, rho_A, np_inv(MatAdd(rho_B.V, V_m)), R_m)

\* gaussian_state.measurement_general with the outcome moments (R_m, V_m)
measurement_general(self, R_m, V_m) ==
    GeneralSplit(self, only_modes(self, idx_modes(self, Len(R_m))),
                 partial_trace(self, idx_modes(self, Len(R_m))), R_m, V_m)

\* the update of measurement_homodyne once rho_B and rho_A are at hand
HomodyneSplit(self, rho_B, rho_A, R_m) ==
    IF ~rho_B.ok THEN rho_B
    ELSE IF ~rho_A.ok THEN rho_A
    ELSE IF Len(rho_B.R) # Len(R_m) THEN Failed("ValueError")
    ELSE SchurUpdate(rho_A,
                     GetSlice2(self.V, 0, 2 * rho_A.N_modes, 2 * rho_A.N_modes,
                               2 * rho_A.N_modes + 2 * rho_B.N_modes),
                     Diag2(Div(Q, rho_B.V[2][2]), 0),          \* MP_inverse
                     VecSub(rho_B.R, R_m))

\* gaussian_state.measurement_homodyne with the outcome mean R_m
measurement_homodyne(self, R_m) ==
    HomodyneSplit(self, only_modes(self, idx_modes(self, Len(R_m))),
                  partial_trace(self, idx_modes(self, Len(R_m))), R_m)

\* measurement_heterodyne once the coherent rho_B is built
HeterodyneWith(self, rho_B) ==
    IF ~rho_B.ok THEN rho_B ELSE measurement_general(self, rho_B.R, rho_B.V)

\* gaussian_state.measurement_heterodyne with a complex amplitude alpha
measurement_heterodyne(self, alpha) ==
    HeterodyneWith(self, gaussian_state(Args(2, Str("coherent"), alpha, NoVec, NoMat)))

\* -------------------------------------------------- logarithmic negativity
\* integer square root, rounded up: the least r >= r0 with n <= r*r
RECURSIVE SqrtFrom(_, _)
SqrtFrom(n, r0) == IF n <= r0 * r0 THEN r0 ELSE SqrtFrom(n, r0 + 1)
ISqrt(n) == SqrtFrom(n, 0)

\* a float result: an ordinary number (val, in units of 1/Q), nan or inf
Float(kind, val) == [kind |-> kind, val |-> val]

\* np.log of a positive fixed-point number, rounded down to the grid
LogSpan == 4 * Q
np_log(x) == CHOOSE y \in (-LogSpan)..LogSpan : np_exp(y) <= x /\ x < np_exp(y + 1)

\* lines 430-436: LN from ni > 0, given in units of 1/Q
NegativityOf(ni) == Float("num", Max(0, -np_log(np_sqrt(Max(1, ni)))))

\* lines 428-436, from sigma (in units of 1/Q^2) and the discriminant
\* sigma^2 - 4 det V0 (in units of 1/Q^4); the sign of ni is decided exactly
NegativityFrom(sigma, disc) ==
    \* np.sqrt of a negative number is nan, and so is everything after it
    IF disc < 0 THEN Float("nan", 0)
    \* ni < 0: LN = 0.0 is overwritten by np.max([0, -np.log(ni)]) = nan
    ELSE IF sigma < 0 \/ disc > sigma * sigma THEN Float("nan", 0)
    \* ni = 0: -np.log(0) = inf
    ELSE IF disc = sigma * sigma THEN Float("inf", 0)
    ELSE NegativityOf(RoundDiv(sigma - ISqrt(disc), 2 * Q))

Discriminant(sigma, detV0) == NegativityFrom(sigma, sigma * sigma - 4 * detV0)

\* lines 422-436 of logarithmic_negativity, on the covariance matrix V0 of the
\* bipartition: sigma = det A + det B - 2 det C of its 2x2 blocks
Negativity(V0) ==
    Discriminant(Det(GetSlice2(V0, 0, 2, 0, 2)) + Det(GetSlice2(V0, 2, 4, 2, 4))
                     - 2 * Det(GetSlice2(V0, 0, 2, 2, 4)),
                 Det(V0))

\* gaussian_state.logarithmic_negativity(*args): `given` tells whether an
\* argument was passed, `indexes` is args[0]; lines 409-420 choose the
\* covariance matrix of the bipartition
BipartitionOf(self, given, indexes) ==
    IF self.N_modes = 2 THEN [ok |-> TRUE, err |-> "", V |-> self.V]
    ELSE IF given /\ self.N_modes > 2
    THEN IF Len(indexes) # 2 THEN [ok |-> FALSE, err |-> "AssertionError", V |-> <<>>]
         ELSE only_modes(self, indexes)
    ELSE [ok |-> FALSE, err |-> "TypeError", V |-> <<>>]

NegativityIn(bipartition) ==
    IF bipartition.ok THEN [ok |-> TRUE, err |-> "", LN |-> Negativity(bipartition.V)]
    ELSE [ok |-> FALSE, err |-> bipartition.err, LN |-> Float("nan", 0)]

logarithmic_negativity(self, given, indexes) ==
    NegativityIn(BipartitionOf(self, given, indexes))

\* ---------------------------------------------------- gaussian_dynamics
\* a drift matrix as the engine is given it: a constant matrix a0, or a
\* callable  lambda t: a0 + t*a1
Drift(fn, a0, a1) == [fn |-> fn, a0 |-> a0, a1 |-> a1]

\* is_a_function: callable(maybe_a_function)
is_a_function(A) == A.fn

\* the matrix self.A(t) of a callable drift
DriftAt(A, t) ==
    Tup([i \in 1..Rows(A.a0) |-> Tup([j \in 1..Cols(A.a0) |->
        A.a0[i][j] + RoundDiv(t * A.a1[i][j], Q)])])

IsTriangular(M) ==
    \/ \A i \in 1..Rows(M) : \A j \in 1..Cols(M) : i > j => M[i][j] = 0
    \/ \A i \in 1..Rows(M) : \A j \in 1..Cols(M) : i < j => M[i][j] = 0
IsDiagonal(M) == \A i \in 1..Rows(M) : \A j \in 1..Cols(M) : i # j => M[i][j] = 0

\* np.linalg.eig(A)[0].real, doubled: the diagonal of a triangular matrix,
\* and (tr +- sqrt(tr^2 - 4 det)) for a 2x2 one; the square root is rounded
\* away from zero, which keeps the sign of each real part exact
eig_real_twice(M) ==
    IF IsTriangular(M) THEN Tup([i \in 1..Rows(M) |-> 2 * M[i][i]])
    ELSE LET tr == M[1][1] + M[2][2]
             disc == tr * tr - 4 * (M[1][1] * M[2][2] - M[1][2] * M[2][1])
         IN  IF disc < 0 THEN <<tr, tr>>
             ELSE <<tr - ISqrt(disc), tr + ISqrt(disc)>>

\* the attributes of a gaussian_dynamics instance; `attrs` holds the names of
\* the attributes that have been assigned so far
NoEngine ==
    [attrs |-> {}, A |-> Drift(FALSE, <<>>, <<>>), D |-> <<>>, N |-> <<>>,
     initial_state |-> Failed(""), Size_matrices |-> 0, is_stable |-> FALSE,
     t |-> <<>>, N_time |-> 0, R |-> <<>>, V |-> <<>>, state |-> <<>>,
     steady_state_internal |-> Failed("")]

\* the constructor counting a zero real part as unstable
gaussian_dynamics_strict(A_0, D_0, N_0, initial_state_0) ==
    [NoEngine EXCEPT
        !.A = A_0, !.D = D_0, !.N = N_0, !.initial_state = initial_state_0,
        !.Size_matrices = Len(D_0),
        !.is_stable = IF ~is_a_function(A_0)
                      THEN ~(\E k \in 1..Len(eig_real_twice(A_0.a0)) :
                                 eig_real_twice(A_0.a0)[k] >= 0)
                      ELSE FALSE,
        !.attrs = {"A", "D", "N", "initial_state", "Size_matrices"}
                  \cup (IF ~is_a_function(A_0) THEN {"is_stable"} ELSE {})]

\* gaussian_dynamics.__init__
gaussian_dynamics(A_0, D_0, N_0, initial_state_0) ==
    [NoEngine EXCEPT
        !.A = A_0, !.D = D_0, !.N = N_0, !.initial_state = initial_state_0,
        !.Size_matrices = Len(D_0),
        !.is_stable = IF ~is_a_function(A_0)
                      THEN ~(\E k \in 1..Len(eig_real_twice(A_0.a0)) :
                                 eig_real_twice(A_0.a0)[k] > 0)
                      ELSE FALSE,
        !.attrs = {"A", "D", "N", "initial_state", "Size_matrices"}
                  \cup (IF ~is_a_function(A_0) THEN {"is_stable"} ELSE {})]

\* solve_ivp as the engine uses it: `status` 0 with a column for every
\* timestamp of t_eval, or -1 with the columns produced before the step failed
SolverOutcomes(n) ==
    {[status |-> 0, cols |-> n]} \cup {[status |-> -1, cols |-> k] : k \in 0..(n - 1)}

\* the drift at time t, whether self.A is a matrix or a callable
DriftValue(A, t) == IF is_a_function(A) THEN DriftAt(A, t) ELSE A.a0

\* langevin_ode: A R + N
langevin_ode(A, N, t, R) ==
    Tup([i \in 1..Len(R) |-> MatVec(DriftValue(A, t), R)[i] + N[i]])

\* lyapunov_ode: A V + V A^T + D
lyapunov_ode(t, V_old, A, D) ==
    MatAdd(MatAdd(MatMul(A, V_old), MatMul(V_old, Transpose(A))), D)

\* the integrated mean at the timestamps t_span[k..], one explicit step per
\* interval, starting from y at t_span[k]
RECURSIVE IntegrateR(_, _, _, _, _)
IntegrateR(A, N, y, t_span, k) ==
    IF k > Len(t_span) THEN <<>>
    ELSE IF k = Len(t_span) THEN <<y>>
    ELSE LET dt == t_span[k + 1] - t_span[k]
             dy == langevin_ode(A, N, t_span[k], y)
         IN  <<y>> \o IntegrateR(A, N, Tup([i \in 1..Len(y) |-> y[i] + RoundDiv(dt * dy[i], Q)]),
                                 t_span, k + 1)

\* the integrated covariance matrix at the timestamps t_span[k..]
RECURSIVE IntegrateV(_, _, _, _, _)
IntegrateV(A, D, V, t_span, k) ==
    IF k > Len(t_span) THEN <<>>
    ELSE IF k = Len(t_span) THEN <<V>>
    ELSE LET dt == t_span[k + 1] - t_span[k]
             dV == lyapunov_ode(t_span[k], V, DriftValue(A, t_span[k]), D)
         IN  <<V>> \o IntegrateV(A, D,
                                 Tup([i \in 1..Rows(V) |-> Tup([j \in 1..Cols(V) |->
                                     V[i][j] + RoundDiv(dt * dV[i][j], Q)])]),
                                 t_span, k + 1)

\* gaussian_dynamics.langevin: self.R holds one column per produced timestamp
langevin(self, t_span, outcome) ==
    [self EXCEPT !.t = t_span, !.N_time = Len(t_span),
                 !.R = SubSeq(IntegrateR(self.A, self.N, self.initial_state.R, t_span, 1),
                              1, outcome.cols),
                 !.attrs = @ \cup {"t", "N_time", "R"}]

\* gaussian_dynamics.lyapunov: self.V holds one matrix per produced timestamp
lyapunov(self, t_span, outcome) ==
    [self EXCEPT !.t = t_span, !.N_time = Len(t_span),
                 !.V = SubSeq(IntegrateV(self.A, self.D, self.initial_state.V, t_span, 1),
                              1, outcome.cols),
                 !.attrs = @ \cup {"t", "N_time", "V"}]

\* the loop of build_states: the states appended before self.R[:, i], self.V[i]
\* or the constructor raises
RECURSIVE StatesFrom(_, _)
StatesFrom(self, i) ==
    IF i > self.N_time \/ i > Len(self.R) \/ i > Len(self.V) THEN <<>>
    ELSE LET M == self.Size_matrices
             b == from_moments(self.R[i], FALSE, NewId, self.V[i], M, M)
         IN  IF b.ok THEN <<b>> \o StatesFrom(self, i + 1) ELSE <<>>

\* the exception that ended the loop of build_states after `made` states
BuildError(self, made) ==
    IF made + 1 > Len(self.R) \/ made + 1 > Len(self.V) THEN "IndexError"
    ELSE from_moments(self.R[made + 1], FALSE, NewId, self.V[made + 1],
                      self.Size_matrices, self.Size_matrices).err

\* build_states without the reset of self.state
build_states_appending(self) ==
    [ok |-> TRUE, err |-> "",
     self |-> [self EXCEPT !.state = @ \o StatesFrom(self, 1), !.attrs = @ \cup {"state"}]]

\* gaussian_dynamics.build_states
build_states(self) ==
    LET made == StatesFrom(self, 1)
    IN  IF "R" \notin self.attrs THEN [ok |-> FALSE, err |-> "AttributeError", self |-> self]
        ELSE IF Len(self.R) = 0 THEN [ok |-> FALSE, err |-> "AssertionError", self |-> self]
        ELSE IF "V" \notin self.attrs
        THEN [ok |-> FALSE, err |-> "AttributeError", self |-> self]
        ELSE [ok |-> Len(made) = self.N_time,
              err |-> IF Len(made) = self.N_time THEN "" ELSE BuildError(self, Len(made)),
              self |-> [self EXCEPT !.state = made, !.attrs = @ \cup {"state"}]]

\* gaussian_dynamics.run
run(self, t_span, out_langevin, out_lyapunov) ==
    LET after == lyapunov(langevin(self, t_span, out_langevin), t_span, out_lyapunov)
    IN  IF Len(self.initial_state.R) # self.Size_matrices
        THEN \* np.reshape(self.initial_state.R, (self.Size_matrices,)) in langevin
             [ok |-> FALSE, err |-> "ValueError",
              self |-> [self EXCEPT !.t = t_span, !.N_time = Len(t_span),
                                    !.attrs = @ \cup {"t", "N_time"}]]
        ELSE IF ~(out_langevin.status # -1 /\ out_lyapunov.status # -1)
        THEN [ok |-> FALSE, err |-> "AssertionError", self |-> after]
        ELSE build_states(after)

\* gaussian_dynamics.langevin_semi_classical: self.t and self.N_time are
\* stored, then dt = self.t(2) - self.t(1) calls the sequence t_span, which
\* raises TypeError; no later statement of the method is reached
langevin_semi_classical(self, t_span, N_ensemble) ==
    [ok |-> FALSE, err |-> "TypeError",
     self |-> [self EXCEPT !.t = t_span, !.N_time = Len(t_span),
                           !.attrs = @ \cup {"t", "N_time"}]]

\* np.linalg.solve(A, b) for a column b: Cramer's rule, rounded once;
\* ok = FALSE is LinAlgError (A singular)
np_solve(A, b) ==
    LET d == Det(A)
    IN  IF Rows(A) # Cols(A) \/ d = 0 THEN [ok |-> FALSE, val |-> b]
        ELSE [ok |-> TRUE,
              val |-> Tup([k \in 1..Rows(A) |->
                  RoundDiv(Q * SumSeq([l \in 1..Rows(A) |->
                               IF b[l] = 0 THEN 0
                               ELSE (IF (k + l) % 2 = 0 THEN 1 ELSE -1)
                                    * Det(Minor(A, l, k)) * b[l]]), d)])]

\* the value standing for an entry of a solution obtained by perturbing a
\* singular equation: far beyond every value of the grid
Huge == 1000 * Q

\* the operator X |-> A X + X A^T on row-major vec(X)
LyapunovOperator(A) ==
    LET M == Rows(A)
        r(p) == (p - 1) \div M + 1
        c(p) == ((p - 1) % M) + 1
    IN  Tup([p \in 1..(M * M) |-> Tup([q \in 1..(M * M) |->
            (IF c(p) = c(q) THEN A[r(p)][r(q)] ELSE 0)
            + (IF r(p) = r(q) THEN A[c(p)][c(q)] ELSE 0)])])

\* scipy.linalg.solve_continuous_lyapunov(A, Qm): the X with A X + X A^T = Qm.
\* A diagonal drift is solved entry by entry, any other one through the
\* operator on vec(X); when two eigenvalues of A sum to zero the library warns
\* and returns the solution of a perturbed equation
solve_continuous_lyapunov(A, Qm) ==
    LET M == Rows(A)
        perturbed == Tup([i \in 1..M |-> Tup([j \in 1..M |-> Sgn(Qm[i][j]) * Huge])])
    IN  IF IsDiagonal(A)
        THEN IF \E i, j \in 1..M : A[i][i] + A[j][j] = 0 THEN perturbed
             ELSE Tup([i \in 1..M |-> Tup([j \in 1..M |->
                      RoundDiv(Q * Qm[i][j], A[i][i] + A[j][j])])])
        ELSE LET x == np_solve(LyapunovOperator(A),
                               Tup([p \in 1..(M * M) |-> Qm[(p - 1) \div M + 1][((p - 1) % M) + 1]]))
             IN  IF ~x.ok THEN perturbed
                 ELSE Tup([i \in 1..M |-> Tup([j \in 1..M |-> x.val[(i - 1) * M + j]])])

\* -v for a column
NegVec(v) == Tup([i \in 1..Len(v) |-> -v[i]])

\* the arguments (A_0, A_c, A_s, omega) of steady_state and floquet; not
\* `given` is the call that leaves all four at their default, the scalar 0
FloquetArgs(given, A_0, A_c, A_s, omega) ==
    [given |-> given, A_0 |-> A_0, A_c |-> A_c, A_s |-> A_s, omega |-> omega]

\* np.block([[A_0, A_c, A_s], [A_c, A_0, -omega*Id], [A_s, +omega*Id, A_0]])
FloquetDrift(M, args) ==
    LET blk(bi, bj, i, j) ==
            IF bi = bj THEN args.A_0[i][j]
            ELSE IF {bi, bj} = {1, 2} THEN args.A_c[i][j]
            ELSE IF {bi, bj} = {1, 3} THEN args.A_s[i][j]
            ELSE IF i # j THEN 0
            ELSE IF bi = 2 THEN -args.omega ELSE args.omega
    IN  Tup([p \in 1..(3 * M) |-> Tup([q \in 1..(3 * M) |->
            blk((p - 1) \div M + 1, (q - 1) \div M + 1, ((p - 1) % M) + 1, ((q - 1) % M) + 1)])])

\* gaussian_dynamics.floquet
floquet(self, args) ==
    LET M == self.Size_matrices
        A_F == FloquetDrift(M, args)
        D_F == block_diag(self.D, block_diag(self.D, self.D))
        N_F == self.N \o self.N \o self.N
        R_ss_F == np_solve(A_F, NegVec(N_F))
        V_ss_F == solve_continuous_lyapunov(A_F, Neg(D_F))
        ss == from_moments(SubSeq(R_ss_F.val, 1, M), FALSE, NewId,
                           GetSlice2(V_ss_F, 0, M, 0, M), M, M)
    IN  \* np.block: scalars beside matrices, or blocks of different sizes
        IF ~args.given \/ Rows(args.A_0) # M
        THEN [ok |-> FALSE, err |-> "ValueError", self |-> self, ss |-> Failed("")]
        ELSE IF ~R_ss_F.ok
        THEN [ok |-> FALSE, err |-> "LinAlgError", self |-> self, ss |-> Failed("")]
        ELSE IF ~ss.ok THEN [ok |-> FALSE, err |-> ss.err, self |-> self, ss |-> Failed("")]
        ELSE [ok |-> TRUE, err |-> "",
              self |-> [self EXCEPT !.steady_state_internal = ss,
                                    !.attrs = @ \cup {"steady_state_internal"}],
              ss |-> ss]

\* steady_state solving the Lyapunov equation with +D on the right-hand side
steady_state_plus_D(self, args) ==
    LET f == floquet(self, args)
        R_ss == np_solve(self.A.a0, NegVec(self.N))
        V_ss == solve_continuous_lyapunov(self.A.a0, self.D)
        M == Rows(self.A.a0)
        ss == from_moments(R_ss.val, FALSE, NewId, V_ss, M, M)
    IN  IF is_a_function(self.A)
        THEN IF ~f.ok THEN f
             ELSE [ok |-> FALSE, err |-> "LinAlgError", self |-> f.self, ss |-> Failed("")]
        ELSE IF ~self.is_stable
        THEN [ok |-> FALSE, err |-> "AssertionError", self |-> self, ss |-> Failed("")]
        ELSE IF ~R_ss.ok
        THEN [ok |-> FALSE, err |-> "LinAlgError", self |-> self, ss |-> Failed("")]
        ELSE IF ~ss.ok THEN [ok |-> FALSE, err |-> ss.err, self |-> self, ss |-> Failed("")]
        ELSE [ok |-> TRUE, err |-> "",
              self |-> [self EXCEPT !.steady_state_internal = ss,
                                    !.attrs = @ \cup {"steady_state_internal"}],
              ss |-> ss]

\* steady_state discarding the states built by run
steady_state_clearing(self, args) ==
    LET f == floquet(self, args)
        R_ss == np_solve(self.A.a0, NegVec(self.N))
        V_ss == solve_continuous_lyapunov(self.A.a0, Neg(self.D))
        M == Rows(self.A.a0)
        ss == from_moments(R_ss.val, FALSE, NewId, V_ss, M, M)
    IN  IF is_a_function(self.A)
        THEN IF ~f.ok THEN f
             ELSE [ok |-> FALSE, err |-> "LinAlgError", self |-> f.self, ss |-> Failed("")]
        ELSE IF ~self.is_stable
        THEN [ok |-> FALSE, err |-> "AssertionError", self |-> self, ss |-> Failed("")]
        ELSE IF ~R_ss.ok
        THEN [ok |-> FALSE, err |-> "LinAlgError", self |-> self, ss |-> Failed("")]
        ELSE IF ~ss.ok THEN [ok |-> FALSE, err |-> ss.err, self |-> self, ss |-> Failed("")]
        ELSE [ok |-> TRUE, err |-> "",
              self |-> [self EXCEPT !.steady_state_internal = ss, !.state = <<>>,
                                    !.attrs = @ \cup {"steady_state_internal"}],
              ss |-> ss]

\* gaussian_dynamics.steady_state
steady_state(self, args) ==
    LET f == floquet(self, args)
        R_ss == np_solve(self.A.a0, NegVec(self.N))
        V_ss == solve_continuous_lyapunov(self.A.a0, Neg(self.D))
        M == Rows(self.A.a0)
        ss == from_moments(R_ss.val, FALSE, NewId, V_ss, M, M)
    IN  IF is_a_function(self.A)
        THEN IF ~f.ok THEN f
             \* np.linalg.solve(self.A, -self.N) on the callable itself
             ELSE [ok |-> FALSE, err |-> "LinAlgError", self |-> f.self, ss |-> Failed("")]
        ELSE IF ~self.is_stable
        THEN [ok |-> FALSE, err |-> "AssertionError", self |-> self, ss |-> Failed("")]
        ELSE IF ~R_ss.ok
        THEN [ok |-> FALSE, err |-> "LinAlgError", self |-> self, ss |-> Failed("")]
        ELSE IF ~ss.ok THEN [ok |-> FALSE, err |-> ss.err, self |-> self, ss |-> Failed("")]
        ELSE [ok |-> TRUE, err |-> "",
              self |-> [self EXCEPT !.steady_state_internal = ss,
                                    !.attrs = @ \cup {"steady_state_internal"}],
              ss |-> ss]

\* ---------------------------------------------------------------- inputs
\* sequences over S of length lo..hi
SeqsOf(S, lo, hi) == UNION {[1..n -> S] : n \in lo..hi}

Names == {"vacuum", "thermal", "coherent", "squeezed", "cat"}
Scalars == {PyInt(0), PyInt(1), PyInt(-1), PyFloat(1), PyComplex(Q, 0), PyComplex(1, 2), Str("x")}

\* the arrays a caller hands to gaussian_state(R0, V0)
RData(L, isInt) == Tup([k \in 1..L |-> IF isInt THEN Q * k ELSE Q * k + 1])
VData(kind, r, c) ==
    Tup([i \in 1..r |-> Tup([j \in 1..c |->
        IF kind = "sym" THEN (IF i = j THEN 2 * Q + i ELSE Min(i, j) + Max(i, j))
        ELSE (IF i = j THEN 2 * Q ELSE 0) + (i - 1) * c + j])])
R0s == {VecArr(L, 1, RData(L, FALSE), FALSE, TRUE) : L \in 0..MaxLen}
         \cup {VecArr(2, 1, RData(2, TRUE), TRUE, TRUE),
               VecArr(2, 2, RData(2, FALSE), FALSE, TRUE),
               VecArr(2, 1, RData(2, FALSE), FALSE, FALSE)}
\* an integer R0 comes with the "idx" covariance, a float R0 with the "sym" one
V0s(R0) ==
    LET L == R0.rows
        k == IF R0.int THEN "idx" ELSE "sym"
    IN  {MatArr(NewId, d[1], d[2], VData(k, d[1], d[2])) :
            d \in {<<L, L>>, <<L + 1, L + 1>>, <<L, L + 1>>}}

\* a two-mode covariance matrix whose second mode is squeezed in position and
\* correlated with the first
SqueezedPair ==
    <<<<2 * Q, 0, Q, 0>>, <<0, 2 * Q, 0, Q>>, <<Q, 0, Q \div 2, 0>>, <<0, Q, 0, 2 * Q>>>>

CtorArgs ==
    {Args(0, NoArg, NoArg, NoVec, NoMat), Args(1, PyInt(1), NoArg, NoVec, NoMat)}
    \cup {Args(1, Str(n), NoArg, NoVec, NoMat) : n \in Names}
    \cup {Args(2, Str(n), p, NoVec, NoMat) : n \in Names \ {"vacuum"}, p \in Scalars}
    \cup {Args(2, Str("vacuum"), PyInt(1), NoVec, NoMat)}
    \cup {Args(1, AnArray, NoArg, R0, NoMat) : R0 \in {VecArr(2, 1, RData(2, FALSE), FALSE, TRUE)}}
    \cup {Args(2, AnArray, PyInt(1), R0, NoMat) : R0 \in {VecArr(2, 1, RData(2, FALSE), FALSE, TRUE)}}
    \cup UNION {{Args(2, AnArray, AnArray, R0, V0) : V0 \in V0s(R0)} : R0 \in R0s}
    \cup {Args(2, AnArray, AnArray, VecArr(4, 1, RData(4, FALSE), FALSE, TRUE),
               MatArr(NewId, 4, 4, SqueezedPair))}

\* index lists handed to partial_trace / only_modes on an instance of N modes:
\* lists over the first two modes and the last one, and lists with one index
\* that is no mode of the instance
IndexLists(N) ==
    SeqsOf({0, 1, N - 1} \cap (0..(N - 1)), 0, MaxList)
    \cup UNION {{<<x>>, <<0, x>>, <<x, 0>>} : x \in {-2, -1, N}}

\* outcome moments handed to the measurements: m modes, mean R_m as a column
\* of shape (2m, 1) like the R of an instance, covariance V_m
Outcomes == {[R |-> Tup([k \in 1..(2 * m) |-> IF k = 1 THEN Q ELSE 0]), V |-> Eye(2 * m)] :
                m \in 1..MaxList}

Alphas == {PyFloat(1), PyFloat(-1), PyComplex(2, -3), PyComplex(-2, 3)}
Taus == {0, 1, Q}

\* (alpha, modes) argument pairs of displace on an instance of N modes
DisplaceArgs(N) ==
    {<<Param("scalar", <<a>>), Param("scalar", <<m>>)>> : a \in Alphas, m \in {0, N - 1, N}}
    \cup {<<Param("list", a), Param("list", m)>> :
             a \in SeqsOf({PyFloat(1)}, 0, MaxList), m \in {<<0>>, <<0, N - 1>>}}

\* (tau, modes) argument pairs of beam_splitter on an instance of N modes
BeamSplitterArgs(N) ==
    {<<t, Param("list", m)>> :
        t \in {Param("scalar", <<x>>) : x \in Taus}
               \cup {Param("ndarray", <<x>>) : x \in Taus}
               \cup {Param("list", <<Q>>), Param("ndarray", <<Q, 0>>)},
        m \in {<<0, N - 1>>, <<N - 1, 0>>, <<0>>}}

\* (r, modes) argument pairs of squeeze on an instance of N modes
SqueezeArgs(N) ==
    {<<Param("scalar", <<Q>>), Param("scalar", <<m>>)>> : m \in {0, N - 1, N}}
    \cup {<<Param("list", r), Param("list", m)>> :
             r \in {<<Q>>, <<Q, -Q>>}, m \in {<<0>>, <<0, N - 1>>}}

\* (theta, modes) argument pairs of rotate, theta in quarter turns
RotateArgs(N) ==
    {<<Param("scalar", <<2>>), Param("scalar", <<m>>)>> : m \in {0, N - 1, N}}
    \cup {<<Param("list", t), Param("list", m)>> :
             t \in {<<1>>, <<2, 1>>}, m \in {<<0>>, <<0, N - 1>>}}

\* (r, modes) argument pairs of two_mode_squeezing on an instance of N modes
TwoModeArgs(N) ==
    {<<r, Param("list", m)>> :
        r \in {Param("scalar", <<Q>>), Param("list", <<>>), Param("ndarray", <<Q, 0>>)},
        m \in {<<0, N - 1>>, <<N - 1, 0>>, <<0>>}}

\* the symmetric covariance matrices the transforms start from
TransformRoots ==
    {gaussian_state(Args(0, NoArg, NoArg, NoVec, NoMat))}
    \cup {from_moments(RData(2 * N, FALSE), FALSE, NewId, VData("sym", 2 * N, 2 * N),
                       2 * N, 2 * N) : N \in 1..3}

\* ----------------------------------------------------------------- state
\* the record of the latest call: its receiver, arguments and outcome
Call(op, self, ok, err, res, idx, list, par, kind, args) ==
    [op |-> op, self |-> self, ok |-> ok, err |-> err, res |-> res, idx |-> idx,
     list |-> list, par |-> par, kind |-> kind, args |-> args]
NoArgs == Args(0, NoArg, NoArg, NoVec, NoMat)
NoCall == Call("none", 0, TRUE, "", 0, <<>>, <<>>, <<>>, "", NoArgs)

Init ==
    /\ objs = <<>>
    /\ last = NoCall
    /\ trail = <<>>
    /\ dyn = NoEngine

\* the instances one constructor call builds
Elementary == {b \in {gaussian_state(args) : args \in CtorArgs} : b.ok}
OnHeap(b) == Alloc(b, {}, "ctor")
Vacuum == OnHeap(gaussian_state(NoArgs))

\* the instances the unitaries are applied to: the elementary ones, and the
\* two-mode products rho.tensor_product([rho]) and vacuum.tensor_product([rho])
UnitaryRoots ==
    Elementary
    \cup {tensor_product(OnHeap(b), <<OnHeap(b)>>) : b \in Elementary}
    \cup {tensor_product(Vacuum, <<OnHeap(b)>>) : b \in Elementary}

InitUnitary ==
    /\ objs \in {<<OnHeap(b)>> : b \in {r \in UnitaryRoots : r.ok}}
    /\ last = NoCall
    /\ trail = <<>>
    /\ dyn = NoEngine

\* an exception that no caller catches ends the program: nothing is called
\* after a call that raised
Running == last.ok

NumCtor == Cardinality({i \in 1..Len(objs) : objs[i].made = "ctor"})

\* a call that returns a gaussian_state: the instance joins the heap, or the
\* call raised and the heap is as before
Returns(b, made, call) ==
    IF b.ok
    THEN /\ objs' = Append(objs, Alloc(b, UsedIds, made))
         /\ last' = [call EXCEPT !.ok = TRUE, !.res = Len(objs) + 1]
    ELSE /\ objs' = objs
         /\ last' = [call EXCEPT !.ok = FALSE, !.err = b.err]

\* rho = gaussian_state(*args)
Construct ==
    /\ Running
    /\ Len(objs) < MaxObjs
    /\ NumCtor < MaxCtor
    /\ \E args \in CtorArgs :
         Returns(gaussian_state(args), "ctor",
                 Call("gaussian_state", 0, TRUE, "", 0, <<>>, <<>>, <<>>, "", args))
    /\ UNCHANGED <<trail, dyn>>

\* rho = self.tensor_product(rho_list)
TensorProduct ==
    /\ Running
    /\ Len(objs) < MaxObjs
    /\ \E self \in 1..Len(objs), rho_list \in SeqsOf(1..Len(objs), 0, MaxList) :
         Returns(tensor_product(objs[self], Tup([k \in 1..Len(rho_list) |-> objs[rho_list[k]]])),
                 "method",
                 Call("tensor_product", self, TRUE, "", 0, <<>>, rho_list, <<>>, "", NoArgs))
    /\ UNCHANGED <<trail, dyn>>

\* rho_A = self.partial_trace(indexes)
PartialTrace ==
    /\ Running
    /\ Len(objs) < MaxObjs
    /\ \E self \in 1..Len(objs) : \E indexes \in IndexLists(objs[self].N_modes) :
         Returns(partial_trace(objs[self], indexes), "method",
                 Call("partial_trace", self, TRUE, "", 0, indexes, <<>>, <<>>, "", NoArgs))
    /\ UNCHANGED <<trail, dyn>>

\* rho_A = self.only_modes(indexes)
OnlyModes ==
    /\ Running
    /\ Len(objs) < MaxObjs
    /\ \E self \in 1..Len(objs) : \E indexes \in IndexLists(objs[self].N_modes) :
         Returns(only_modes(objs[self], indexes), "method",
                 Call("only_modes", self, TRUE, "", 0, indexes, <<>>, <<>>, "", NoArgs))
    /\ UNCHANGED <<trail, dyn>>

\* the outcome argument of a measurement: an instance of the heap (obj > 0)
\* or explicit moments
OutcomeArgs ==
    {[obj |-> b, R |-> objs[b].R, V |-> objs[b].V] : b \in 1..Len(objs)}
    \cup {[obj |-> 0, R |-> o.R, V |-> o.V] : o \in Outcomes}
ObjList(arg) == IF arg.obj = 0 THEN <<>> ELSE <<arg.obj>>

\* rho_A = self.measurement_general(rho_B) or self.measurement_general(R_m, V_m)
MeasureGeneral ==
    /\ Running
    /\ Len(objs) < MaxObjs
    /\ \E self \in 1..Len(objs) : \E arg \in OutcomeArgs :
         Returns(measurement_general(objs[self], arg.R, arg.V), "method",
                 Call("measurement_general", self, TRUE, "", 0,
                      idx_modes(objs[self], Len(arg.R)), ObjList(arg), <<>>, "", NoArgs))
    /\ UNCHANGED <<trail, dyn>>

\* the momentum variance V_B[1, 1] that measurement_homodyne divides by
HomodyneDivisor(rho_B) == IF rho_B.ok THEN rho_B.V[2][2] ELSE Q

\* rho_A = self.measurement_homodyne(rho_B) or self.measurement_homodyne(R_m);
\* called where the measured momentum variance is not zero
MeasureHomodyne ==
    /\ Running
    /\ Len(objs) < MaxObjs
    /\ \E self \in 1..Len(objs) : \E arg \in OutcomeArgs :
         /\ HomodyneDivisor(only_modes(objs[self], idx_modes(objs[self], Len(arg.R)))) # 0
         /\ Returns(measurement_homodyne(objs[self], arg.R), "method",
                    Call("measurement_homodyne", self, TRUE, "", 0,
                         idx_modes(objs[self], Len(arg.R)), ObjList(arg), <<>>, "",
                         NoArgs))
    /\ UNCHANGED <<trail, dyn>>

\* rho_A = self.measurement_heterodyne(rho_B) or self.measurement_heterodyne(alpha)
MeasureHeterodyne ==
    /\ Running
    /\ Len(objs) < MaxObjs
    /\ \E self \in 1..Len(objs) :
         \/ \E b \in 1..Len(objs) :
              Returns(measurement_general(objs[self], objs[b].R, objs[b].V), "method",
                      Call("measurement_heterodyne", self, TRUE, "", 0,
                           idx_modes(objs[self], Len(objs[b].R)), <<b>>, <<>>, "", NoArgs))
         \/ \E alpha \in Alphas \cup {Str("x")} :
              Returns(measurement_heterodyne(objs[self], alpha), "method",
                      Call("measurement_heterodyne", self, TRUE, "", 0,
                           idx_modes(objs[self], 2), <<>>, <<alpha>>, "", NoArgs))
    /\ UNCHANGED <<trail, dyn>>

\* one remembered unitary call: the receiver's moments before and after it
Step(op, self, a, modes, ok, o, R1, V1) ==
    [op |-> op, self |-> self, kind |-> a.kind, a |-> a.vals, modes |-> modes, ok |-> ok,
     R0 |-> o.R, V0 |-> o.V, N0 |-> o.N_modes, Omega0 |-> o.Omega, R1 |-> R1, V1 |-> V1]

\* self.displace(alpha, modes): the buffer of self.R is written in place, so
\* every instance bound to that buffer sees the write
Displace ==
    /\ Running
    /\ Len(trail) < MaxTrail
    /\ \E self \in 1..Len(objs) : \E am \in DisplaceArgs(objs[self].N_modes) :
         LET r == displace(objs[self], am[1], am[2])
         IN  /\ objs' = [i \in 1..Len(objs) |->
                           IF objs[i].Rid = objs[self].Rid
                           THEN [objs[i] EXCEPT !.R = r.R] ELSE objs[i]]
             /\ last' = Call("displace", self, r.ok, r.err, 0, am[2].vals, <<>>,
                             am[1].vals, am[1].kind, NoArgs)
             /\ trail' = Append(trail, Step("displace", self, am[1], am[2].vals,
                                            r.ok, objs[self], r.R, objs[self].V))
    /\ UNCHANGED dyn

\* self.beam_splitter(tau, modes): self.R and self.V are rebound to new arrays
BeamSplitter ==
    /\ Running
    /\ Len(trail) < MaxTrail
    /\ \E self \in 1..Len(objs) : \E tm \in BeamSplitterArgs(objs[self].N_modes) :
         LET r == beam_splitter(objs[self], tm[1], tm[2])
             rid == FreshId(UsedIds)
             vid == FreshId(UsedIds \cup {rid})
         IN  /\ objs' = IF r.ok
                        THEN [objs EXCEPT ![self] =
                                [@ EXCEPT !.R = r.R, !.Rint = FALSE, !.Rid = rid,
                                          !.V = r.V, !.Vid = vid]]
                        ELSE objs
             /\ last' = Call("beam_splitter", self, r.ok, r.err, 0, tm[2].vals, <<>>,
                             <<>>, tm[1].kind, NoArgs)
             /\ trail' = Append(trail, Step("beam_splitter", self, tm[1], tm[2].vals,
                                            r.ok, objs[self], r.R, r.V))
    /\ UNCHANGED dyn

Next ==
    \/ Construct
    \/ TensorProduct
    \/ PartialTrace
    \/ OnlyModes
    \/ MeasureGeneral
    \/ MeasureHomodyne
    \/ MeasureHeterodyne

Spec == Init /\ [][Next]_vars

NextUnitary ==
    \/ Displace
    \/ BeamSplitter

SpecUnitary == InitUnitary /\ [][NextUnitary]_vars

\* self.R and self.V rebound to the arrays a transform computed
Rebound(self, r) ==
    IF r.ok
    THEN [objs EXCEPT ![self] =
            [@ EXCEPT !.R = r.R, !.Rint = FALSE, !.Rid = FreshId(UsedIds),
                      !.V = r.V, !.Vid = FreshId(UsedIds \cup {FreshId(UsedIds)})]]
    ELSE objs

\* self.squeeze(r, modes)
Squeeze ==
    /\ Running
    /\ Len(trail) < MaxTrail
    /\ \E self \in 1..Len(objs) : \E rm \in SqueezeArgs(objs[self].N_modes) :
         \E r \in {squeeze(objs[self], rm[1], rm[2])} :
             /\ objs' = Rebound(self, r)
             /\ last' = Call("squeeze", self, r.ok, r.err, 0, rm[2].vals, <<>>,
                             rm[1].vals, rm[1].kind, NoArgs)
             /\ trail' = Append(trail, Step("squeeze", self, rm[1], rm[2].vals,
                                            r.ok, objs[self], r.R, r.V))
    /\ UNCHANGED dyn

\* self.rotate(theta, modes), and self.phase(theta, modes) which calls it
Rotate ==
    /\ Running
    /\ Len(trail) < MaxTrail
    /\ \E self \in 1..Len(objs) : \E tm \in RotateArgs(objs[self].N_modes) :
         \E r \in {rotate(objs[self], tm[1], tm[2])} :
             /\ objs' = Rebound(self, r)
             /\ last' = Call("rotate", self, r.ok, r.err, 0, tm[2].vals, <<>>,
                             tm[1].vals, tm[1].kind, NoArgs)
             /\ trail' = Append(trail, Step("rotate", self, tm[1], tm[2].vals,
                                            r.ok, objs[self], r.R, r.V))
    /\ UNCHANGED dyn

\* self.two_mode_squeezing(r, modes)
TwoModeSqueezing ==
    /\ Running
    /\ Len(trail) < MaxTrail
    /\ \E self \in 1..Len(objs) : \E rm \in TwoModeArgs(objs[self].N_modes) :
         \E r \in {two_mode_squeezing(objs[self], rm[1], rm[2])} :
             /\ objs' = Rebound(self, r)
             /\ last' = Call("two_mode_squeezing", self, r.ok, r.err, 0, rm[2].vals, <<>>,
                             rm[1].vals, rm[1].kind, NoArgs)
             /\ trail' = Append(trail, Step("two_mode_squeezing", self, rm[1], rm[2].vals,
                                            r.ok, objs[self], r.R, r.V))
    /\ UNCHANGED dyn

InitTransforms ==
    /\ objs \in {<<OnHeap(b)>> : b \in TransformRoots}
    /\ last = NoCall
    /\ trail = <<>>
    /\ dyn = NoEngine

NextTransforms ==
    \/ Displace
    \/ Squeeze
    \/ Rotate
    \/ BeamSplitter
    \/ TwoModeSqueezing

SpecTransforms == InitTransforms /\ [][NextTransforms]_vars

\* ------------------------------------ transforms followed by reductions
\* covariance matrices with entries 3 on and 1 off the diagonal, in a unit
\* that keeps MaxTrail transforms free of rounding: each transform divides
\* the products of V by Q twice
Exact == Q ^ (2 * MaxTrail)
ExactV(n) == Tup([i \in 1..n |-> Tup([j \in 1..n |-> IF i = j THEN 3 * Exact ELSE Exact])])
SymmetricRoots ==
    {from_moments(RData(2 * N, FALSE), FALSE, NewId, ExactV(2 * N), 2 * N, 2 * N) :
        N \in 2..3}

InitSymmetry ==
    /\ objs \in {<<OnHeap(b)>> : b \in SymmetricRoots}
    /\ last = NoCall
    /\ trail = <<>>
    /\ dyn = NoEngine

\* index lists of the reductions: one mode, two modes in descending order,
\* a mode named twice
ReductionLists(N) == {<<0>>, <<N - 1, 0>>, <<1, 1>>}

\* a remembered call that returned the instance b (or raised)
Derived(op, self, indexes, rho_list, b) ==
    /\ Returns(b, "method", Call(op, self, TRUE, "", 0, indexes, rho_list, <<>>, "", NoArgs))
    /\ trail' = Append(trail, Step(op, self, Param("list", <<>>), indexes, b.ok,
                                   objs[self], b.R, b.V))

\* rho_A = self.partial_trace(indexes)
TraceOut ==
    /\ Running
    /\ Len(objs) < MaxObjs
    /\ Len(trail) < MaxTrail
    /\ \E self \in 1..Len(objs) : \E indexes \in ReductionLists(objs[self].N_modes) :
         Derived("partial_trace", self, indexes, <<>>, partial_trace(objs[self], indexes))
    /\ UNCHANGED dyn

\* rho_A = self.only_modes(indexes)
KeepOnly ==
    /\ Running
    /\ Len(objs) < MaxObjs
    /\ Len(trail) < MaxTrail
    /\ \E self \in 1..Len(objs) : \E indexes \in ReductionLists(objs[self].N_modes) :
         Derived("only_modes", self, indexes, <<>>, only_modes(objs[self], indexes))
    /\ UNCHANGED dyn

\* rho = self.tensor_product(rho_list)
Compose ==
    /\ Running
    /\ Len(objs) < MaxObjs
    /\ Len(trail) < MaxTrail
    /\ \E self \in 1..Len(objs), rho_list \in SeqsOf(1..Len(objs), 0, 1) :
         Derived("tensor_product", self, <<>>, rho_list,
                 tensor_product(objs[self],
                                Tup([k \in 1..Len(rho_list) |-> objs[rho_list[k]]])))
    /\ UNCHANGED dyn

NextSymmetry ==
    \/ Displace
    \/ Squeeze
    \/ Rotate
    \/ BeamSplitter
    \/ TwoModeSqueezing
    \/ TraceOut
    \/ KeepOnly
    \/ Compose

SpecSymmetry == InitSymmetry /\ [][NextSymmetry]_vars


\* --------------------------------------------- symplectic eigenvalues
MaxPairs == 3     \* most modes of a spectrum handed to the pair removal

\* np.delete(a, idx)
np_delete(a, idx) == SubSeq(a, 1, idx) \o SubSeq(a, idx + 2, Len(a))

\* an argmin that always answers index 0: the entry after the recorded one
np_argmin_first(a, x) == 0

\* np.argmin(np.abs(a - x)): the first index (from 0) of the least distance
np_argmin(a, x) ==
    (CHOOSE k \in 1..Len(a) :
        /\ \A j \in 1..Len(a) : Abs(a[k] - x) <= Abs(a[j] - x)
        /\ \A j \in 1..(k - 1) : Abs(a[j] - x) > Abs(a[k] - x)) - 1

\* the loop of symplectic_eigenvalues from its i-th round on
RECURSIVE PairRemoval(_, _, _, _)
PairRemoval(lambda_0, lambda_s, i, N_modes) ==
    IF i >= N_modes THEN [ok |-> TRUE, err |-> "", lambda_s |-> lambda_s, lambda_0 |-> lambda_0]
    ELSE IF lambda_0 = <<>>
    THEN [ok |-> FALSE, err |-> "IndexError", lambda_s |-> lambda_s, lambda_0 |-> lambda_0]
    ELSE IF Tail(lambda_0) = <<>>                      \* argmin of an empty sequence
    THEN [ok |-> FALSE, err |-> "ValueError", lambda_s |-> Append(lambda_s, lambda_0[1]),
          lambda_0 |-> <<>>]
    ELSE CHOOSE r \in {PairRemoval(rest, Append(lambda_s, lambda_0[1]), i + 1, N_modes) :
                          rest \in {np_delete(Tail(lambda_0),
                                              np_argmin(Tail(lambda_0), lambda_0[1]))}} : TRUE

\* gaussian_state.symplectic_eigenvalues once np.abs(eig(H)) is at hand
symplectic_eigenvalues(lambda_0, N_modes) == PairRemoval(lambda_0, <<>>, 0, N_modes)

\* the magnitudes np.abs(eig(1j * Omega @ V)) of up to MaxPairs modes: every
\* value an even number of times, in any order; two of the values are close
Magnitudes == {Q, Q + 1, 3 * Q}
Occurrences(a, v) == Cardinality({k \in 1..Len(a) : a[k] = v})
Spectra ==
    {a \in UNION {[1..(2 * N) -> Magnitudes] : N \in 1..MaxPairs} :
        \A v \in Magnitudes : Occurrences(a, v) % 2 = 0}

\* lambda_0 = np.abs(lambda_0) has been computed
InitPairs ==
    /\ objs = <<>>
    /\ last \in {Call("np.abs", 0, TRUE, "", 0, <<>>, <<>>, a, "", NoArgs) : a \in Spectra}
    /\ trail = <<>>
    /\ dyn = NoEngine

\* the loop of symplectic_eigenvalues and its return
SymplecticEigenvalues ==
    /\ last.op = "np.abs"
    /\ \E r \in {symplectic_eigenvalues(last.par, Len(last.par) \div 2)} :
         /\ last' = Call("symplectic_eigenvalues", 0, r.ok, r.err, 0, <<>>, r.lambda_s,
                         last.par, "", NoArgs)
         /\ trail' = Append(trail, r)
    /\ UNCHANGED <<objs, dyn>>

NextPairs == SymplecticEigenvalues

SpecPairs == InitPairs /\ [][NextPairs]_vars

\* ------------------------------------------- splitting and recombining
\* the client program
\*     rho_A = rho.partial_trace(T); rho_B = rho.only_modes(T)
\*     sigma = rho_A.tensor_product([rho_B])
\* on the instance rho the heap starts with, one method call per step
SplitTrace ==
    /\ Running
    /\ last.op = "none"
    /\ \E indexes \in IndexLists(objs[1].N_modes) :
         Returns(partial_trace(objs[1], indexes), "method",
                 Call("partial_trace", 1, TRUE, "", 0, indexes, <<>>, <<>>, "", NoArgs))
    /\ UNCHANGED <<trail, dyn>>

SplitOnly ==
    /\ Running
    /\ last.op = "partial_trace"
    /\ Returns(only_modes(objs[1], last.idx), "method",
               Call("only_modes", 1, TRUE, "", 0, last.idx, <<>>, <<>>, "", NoArgs))
    /\ UNCHANGED <<trail, dyn>>

\* the call record keeps the index list T the program works with
Recombine ==
    /\ Running
    /\ last.op = "only_modes"
    /\ Len(objs) = 3
    /\ Returns(tensor_product(objs[2], <<objs[3]>>), "method",
               Call("tensor_product", 2, TRUE, "", 0, last.idx, <<3>>, <<>>, "", NoArgs))
    /\ UNCHANGED <<trail, dyn>>

NextSplit ==
    \/ SplitTrace
    \/ SplitOnly
    \/ Recombine

SpecSplit == InitUnitary /\ [][NextSplit]_vars

\* ------------------------------------------ the engine's runs and queries
MaxGrid == 3      \* longest time grid handed to run

\* the time grids: 0, 1, 2, ...
Grids == {Tup([k \in 1..n |-> (k - 1) * Q]) : n \in 2..MaxGrid}

\* 2x2 drift matrices: stable, marginal (a zero eigenvalue, a purely imaginary
\* pair), unstable, triangular, with a complex pair, symmetric; and a callable
ConstantDrifts ==
    {Diag2(-Q, -Q), Diag2(-Q, 0), <<<<0, Q>>, <<-Q, 0>>>>, Diag2(Q, -Q),
     <<<<-Q, Q>>, <<0, -2 * Q>>>>, <<<<-Q, Q>>, <<-Q, -Q>>>>,
     <<<<-2 * Q, Q>>, <<Q, -2 * Q>>>>, <<<<0, Q>>, <<Q, 0>>>>}
Drifts ==
    {Drift(FALSE, a, Zeros(2, 2)) : a \in ConstantDrifts}
    \cup {Drift(TRUE, Diag2(-Q, -Q), Diag2(1, 0))}

TwoVacua == tensor_product(Vacuum, <<Vacuum>>)

\* the engines: single-mode systems, and the two-mode system with drift
\* diag(-1,-1,-1,-1), unit diffusion and no mean noise, started in two vacua
Engines ==
    {gaussian_dynamics(A, Eye(2), <<0, 0>>, gaussian_state(NoArgs)) : A \in Drifts}
    \cup {gaussian_dynamics(A, Eye(2), <<Q, 0>>,
                            gaussian_state(Args(2, Str("coherent"), PyFloat(Q), NoVec, NoMat))) :
             A \in Drifts}
    \cup {gaussian_dynamics(Drift(FALSE, Neg(Eye(4)), Zeros(4, 4)), Eye(4), <<0, 0, 0, 0>>,
                            TwoVacua)}

\* what a solver can report on this engine: integrating a constant drift of
\* these sizes completes; a step may fail on a callable drift (a pole of A(t)
\* in the last interval of the grid)
IntegrationOutcomes(self, n) ==
    IF is_a_function(self.A)
    THEN {o \in SolverOutcomes(n) : o.cols \in {n - 1, n}}
    ELSE {o \in SolverOutcomes(n) : o.status = 0}

\* the argument lists of steady_state and floquet: all defaults, or a
\* diagonal A_0 with no modulation (A_c = A_s = 0, omega = 0)
NoFloquetArgs == FloquetArgs(FALSE, <<>>, <<>>, <<>>, 0)
QueryArgs ==
    {NoFloquetArgs}
    \cup {FloquetArgs(TRUE, a, Zeros(2, 2), Zeros(2, 2), 0) :
             a \in {Diag2(-Q, -Q), Diag2(-Q, -2 * Q), Diag2(0, -Q)}}

\* one remembered call on the engine: its arguments, its outcome, the engine
\* before and after it
Query(op, grid, args, ok, err, ss, before, after) ==
    [op |-> op, grid |-> grid, args |-> args, ok |-> ok, err |-> err, ss |-> ss,
     before |-> before, after |-> after]

EngineCall(op, ok, err) == Call(op, 0, ok, err, 0, <<>>, <<>>, <<>>, "", NoArgs)

InitDynamics ==
    /\ objs = <<>>
    /\ last = NoCall
    /\ trail = <<>>
    /\ dyn \in Engines

\* result = engine.run(t_span); an exception is caught by the caller, who
\* goes on using the engine
Run ==
    /\ Len(trail) < MaxTrail
    /\ \E t_span \in Grids :
         \E o1, o2 \in IntegrationOutcomes(dyn, Len(t_span)) :
             LET r == run(dyn, t_span, o1, o2)
             IN  /\ dyn' = r.self
                 /\ last' = EngineCall("run", r.ok, r.err)
                 /\ trail' = Append(trail, Query("run", t_span, NoFloquetArgs, r.ok, r.err,
                                                 Failed(""), dyn, r.self))
    /\ UNCHANGED objs

\* ss = engine.steady_state(A_0, A_c, A_s, omega)
SteadyState ==
    /\ Len(trail) < MaxTrail
    /\ \E args \in QueryArgs :
         LET r == steady_state(dyn, args)
         IN  /\ dyn' = r.self
             /\ last' = EngineCall("steady_state", r.ok, r.err)
             /\ trail' = Append(trail, Query("steady_state", <<>>, args, r.ok, r.err,
                                             r.ss, dyn, r.self))
    /\ UNCHANGED objs

\* ss = engine.floquet(A_0, A_c, A_s, omega)
Floquet ==
    /\ Len(trail) < MaxTrail
    /\ \E args \in QueryArgs :
         LET r == floquet(dyn, args)
         IN  /\ dyn' = r.self
             /\ last' = EngineCall("floquet", r.ok, r.err)
             /\ trail' = Append(trail, Query("floquet", <<>>, args, r.ok, r.err,
                                             r.ss, dyn, r.self))
    /\ UNCHANGED objs

NextDynamics ==
    \/ Run
    \/ SteadyState
    \/ Floquet

SpecDynamics == InitDynamics /\ [][NextDynamics]_vars

\* the N_ensemble argument: left to its default 2e+2, or an int
Ensembles == {PyFloat(200 * Q), PyInt(2)}

\* engine.langevin_semi_classical(t_span, N_ensemble)
LangevinSemiClassical ==
    /\ Len(trail) < MaxTrail
    /\ \E t_span \in Grids, N_ensemble \in Ensembles :
         \E r \in {langevin_semi_classical(dyn, t_span, N_ensemble)} :
             /\ dyn' = r.self
             /\ last' = EngineCall("langevin_semi_classical", r.ok, r.err)
             /\ trail' = Append(trail, Query("langevin_semi_classical", t_span,
                                             NoFloquetArgs, r.ok, r.err, Failed(""),
                                             dyn, r.self))
    /\ UNCHANGED objs

NextSemiClassical ==
    \/ Run
    \/ LangevinSemiClassical

SpecSemiClassical == InitDynamics /\ [][NextSemiClassical]_vars

\* -------------------------------------- the solvers called one at a time
MaxCalls == 3     \* calls on the engine in one behaviour of SpecSolvers

\* the grids of Grids, and a grid of two stamps with a double step
SolverGrids == Grids \cup {<<0, 2 * Q>>}

\* two single-mode engines with constant drift: a damped one with a driven,
\* displaced mean, and a rotating one started in the vacuum
SolverEngines ==
    {gaussian_dynamics(Drift(FALSE, Diag2(-Q, -Q), Zeros(2, 2)), Eye(2), <<Q, 0>>,
                       gaussian_state(Args(2, Str("coherent"), PyFloat(Q), NoVec, NoMat))),
     gaussian_dynamics(Drift(FALSE, <<<<0, Q>>, <<-Q, 0>>>>, Zeros(2, 2)), Eye(2), <<0, 0>>,
                       gaussian_state(NoArgs))}

InitSolvers ==
    /\ objs = <<>>
    /\ last = NoCall
    /\ trail = <<>>
    /\ dyn \in SolverEngines

\* the remembered call of a solver that returned
Solved(op, t_span, after) ==
    /\ dyn' = after
    /\ last' = EngineCall(op, TRUE, "")
    /\ trail' = Append(trail, Query(op, t_span, NoFloquetArgs, TRUE, "", Failed(""),
                                    dyn, after))

\* result = engine.run(t_span)
RunSolvers ==
    /\ Len(trail) < MaxCalls
    /\ \E t_span \in SolverGrids :
         \E o1, o2 \in IntegrationOutcomes(dyn, Len(t_span)) :
             \E r \in {run(dyn, t_span, o1, o2)} :
                 /\ dyn' = r.self
                 /\ last' = EngineCall("run", r.ok, r.err)
                 /\ trail' = Append(trail, Query("run", t_span, NoFloquetArgs, r.ok, r.err,
                                                 Failed(""), dyn, r.self))
    /\ UNCHANGED objs

\* status = engine.langevin(t_span)
Langevin ==
    /\ Len(trail) < MaxCalls
    /\ \E t_span \in SolverGrids :
         \E o \in IntegrationOutcomes(dyn, Len(t_span)) :
             Solved("langevin", t_span, langevin(dyn, t_span, o))
    /\ UNCHANGED objs

\* status = engine.lyapunov(t_span)
Lyapunov ==
    /\ Len(trail) < MaxCalls
    /\ \E t_span \in SolverGrids :
         \E o \in IntegrationOutcomes(dyn, Len(t_span)) :
             Solved("lyapunov", t_span, lyapunov(dyn, t_span, o))
    /\ UNCHANGED objs

\* engine.build_states()
BuildStates ==
    /\ Len(trail) < MaxCalls
    /\ \E r \in {build_states(dyn)} :
         /\ dyn' = r.self
         /\ last' = EngineCall("build_states", r.ok, r.err)
         /\ trail' = Append(trail, Query("build_states", <<>>, NoFloquetArgs, r.ok, r.err,
                                         Failed(""), dyn, r.self))
    /\ UNCHANGED objs

NextSolvers ==
    \/ RunSolvers
    \/ Langevin
    \/ Lyapunov
    \/ BuildStates

SpecSolvers == InitSolvers /\ [][NextSolvers]_vars

\* ------------------------------------------ engines of any initial state
\* the engines of Engines started in the vacuum, and the same systems handed
\* an initial state of another size
EnginesAnySize ==
    {gaussian_dynamics(A, Eye(2), <<0, 0>>, init) :
        A \in Drifts, init \in {gaussian_state(NoArgs), TwoVacua}}
    \cup {gaussian_dynamics(Drift(FALSE, Neg(Eye(4)), Zeros(4, 4)), Eye(4), <<0, 0, 0, 0>>,
                            init) : init \in {gaussian_state(NoArgs), TwoVacua}}

InitEngine ==
    /\ objs = <<>>
    /\ last = NoCall
    /\ trail = <<>>
    /\ dyn \in EnginesAnySize

SpecEngine == InitEngine /\ [][NextDynamics]_vars

\* ------------------------------------------- entanglement of a bipartition
\* 4x4 covariance matrices handed to the constructor, which checks shapes
\* only: correlated modes, and matrices of zero and of negative determinant
Covariances ==
    {<<<<Q + 1, 0, Q - 1, 0>>, <<0, Q + 1, 0, 1 - Q>>,
       <<Q - 1, 0, Q + 1, 0>>, <<0, 1 - Q, 0, Q + 1>>>>,
     block_diag(Eye(2), Diag2(Q, 0)),
     block_diag(Eye(2), Diag2(Q, -Q)),
     block_diag(Diag2(Q, -Q), Diag2(Q, -Q))}

NegativityRoots ==
    UnitaryRoots
    \cup {tensor_product(Vacuum, <<OnHeap(b), Vacuum>>) : b \in Elementary}
    \cup {from_moments(<<0, 0, 0, 0>>, FALSE, NewId, V, 4, 4) : V \in Covariances}

\* the arguments of logarithmic_negativity: none, or a list of indices
NegativityArgs(N) ==
    {[given |-> FALSE, indexes |-> <<>>]}
    \cup {[given |-> TRUE, indexes |-> i] : i \in IndexLists(N) \cup {<<0, 1, 0>>, <<0, 1, N - 1>>}}

InitNegativity ==
    /\ objs \in {<<OnHeap(b)>> : b \in {r \in NegativityRoots : r.ok}}
    /\ last = NoCall
    /\ trail = <<>>
    /\ dyn = NoEngine

\* LN = self.logarithmic_negativity(*args)
LogarithmicNegativity ==
    /\ Running
    /\ last.op = "none"
    /\ \E self \in 1..Len(objs) : \E a \in NegativityArgs(objs[self].N_modes) :
         \E r \in {logarithmic_negativity(objs[self], a.given, a.indexes)} :
             /\ last' = Call("logarithmic_negativity", self, r.ok, r.err, 0, a.indexes,
                             <<>>, <<>>, IF a.given THEN "list" ELSE "", NoArgs)
             /\ trail' = Append(trail, [op |-> "logarithmic_negativity", self |-> self,
                                        given |-> a.given, indexes |-> a.indexes,
                                        ok |-> r.ok, err |-> r.err, LN |-> r.LN])
    /\ UNCHANGED <<objs, dyn>>

NextNegativity ==
    \/ LogarithmicNegativity

SpecNegativity == InitNegativity /\ [][NextNegativity]_vars

\* =============================================================== properties
\* ---- vocabulary of the properties
\* o is an N_modes-mode state: R of length 2*N_modes, V of that dimension
WellFormed(o) ==
    /\ Len(o.R) = 2 * o.N_modes
    /\ Rows(o.V) = Len(o.R)
    /\ Cols(o.V) = Len(o.R)

\* the two entries of R and the 2x2 block of V that belong to modes m, n
BlockR(R, m) == <<R[2 * m + 1], R[2 * m + 2]>>
BlockV(V, m, n) ==
    <<<<V[2 * m + 1][2 * n + 1], V[2 * m + 1][2 * n + 2]>>,
      <<V[2 * m + 2][2 * n + 1], V[2 * m + 2][2 * n + 2]>>>>

InRange(indexes, N) == \A k \in 1..Len(indexes) : indexes[k] \in 0..(N - 1)
Distinct(indexes) ==
    \A k, l \in 1..Len(indexes) : k # l => indexes[k] # indexes[l]

\* the k-th smallest element of a set of numbers
Kth(S, k) == CHOOSE x \in S : Cardinality({y \in S : y < x}) = k - 1

\* the heap as it was, still in place after a call
HeapKept == SubSeq(objs', 1, Len(objs)) = objs

\* the instance the latest call returned, and the one it was called on
Result == objs[last.res]
Parent == objs[last.self]

\* ---- C1
\* C1: every instance a constructor call returns has R of even length equal
\* to 2*N_modes, V of size len(R) x len(R) and Omega of V's dimension; and
\* gaussian_state(R0, V0) raises for every R0 of odd length.
C1_ConstructedShapes ==
    /\ \A i \in 1..Len(objs) :
         objs[i].made = "ctor" =>
           /\ Len(objs[i].R) % 2 = 0
           /\ WellFormed(objs[i])
           /\ Rows(objs[i].Omega) = Rows(objs[i].V)
           /\ Cols(objs[i].Omega) = Cols(objs[i].V)
    /\ (/\ last.op = "gaussian_state"
        /\ last.args.n = 2
        /\ last.args.a0 = AnArray
        /\ last.args.R0.rows % 2 = 1) => ~last.ok

\* ---- C2
ReturningOps ==
    {"tensor_product", "partial_trace", "only_modes", "measurement_general",
     "measurement_homodyne", "measurement_heterodyne"}

\* C2: the instance that tensor_product (also with an empty list),
\* partial_trace, only_modes or a measurement returns is a new instance whose
\* R and V buffers are not the R or V buffer of the parent or of an operand.
C2_FreshBuffers ==
    (last.op \in ReturningOps /\ last.ok) =>
        \A i \in {last.self} \cup {last.list[k] : k \in 1..Len(last.list)} :
            /\ last.res # i
            /\ Result.Rid \notin {objs[i].Rid, objs[i].Vid}
            /\ Result.Vid \notin {objs[i].Rid, objs[i].Vid}


\* ---- C3
MeasurementOps == {"measurement_general", "measurement_homodyne", "measurement_heterodyne"}

\* the diagonal block of V on rows and columns lo+1 .. hi
SubBlock(V, lo, hi) ==
    Tup([i \in 1..(hi - lo) |-> Tup([j \in 1..(hi - lo) |-> V[lo + i][lo + j]])])

\* the covariance of the outcome a measurement call was given
OutcomeV(call, heap) ==
    IF call.list # <<>> THEN heap[call.list[1]].V ELSE Eye(2 * Len(call.idx))

\* a measurement of the last m >= 1 modes of a well-formed (n+m)-mode state,
\* n >= 1, with a well-formed m-mode outcome and V_B + V_m invertible
MeasuresLastModes(call, heap) ==
    /\ call.op \in MeasurementOps
    /\ WellFormed(heap[call.self])
    /\ Len(call.idx) >= 1
    /\ call.idx[1] >= 1
    /\ call.list # <<>> =>
         /\ WellFormed(heap[call.list[1]])
         /\ heap[call.list[1]].N_modes = Len(call.idx)
    /\ call.par # <<>> => call.par[1].t # "str"
    /\ call.op # "measurement_homodyne" =>
         Det(MatAdd(SubBlock(heap[call.self].V, 2 * call.idx[1],
                             2 * heap[call.self].N_modes),
                    OutcomeV(call, heap))) # 0

\* C3: each of the three measurements, applied to the last m >= 1 modes of an
\* (n+m)-mode state with n >= 1, returns a new state with N_modes = n, R of
\* length 2n and V of size 2n x 2n, and leaves the parent as it was.
C3_MeasurementReturns ==
    [][MeasuresLastModes(last', objs) =>
         /\ last'.ok
         /\ HeapKept
         /\ last'.res = Len(objs) + 1
         /\ objs'[last'.res].N_modes = last'.idx[1]
         /\ Len(objs'[last'.res].R) = 2 * last'.idx[1]
         /\ Rows(objs'[last'.res].V) = 2 * last'.idx[1]
         /\ Cols(objs'[last'.res].V) = 2 * last'.idx[1]]_vars

\* ---- C4
\* what the spec adds to entry e of R: 2 Re(alpha_i) or 2 Im(alpha_i) for each
\* position i of the call that targets the mode of e
RECURSIVE ShiftOf(_, _, _, _)
ShiftOf(e, a, modes, i) ==
    IF i > Len(modes) THEN 0
    ELSE (IF modes[i] = (e - 1) \div 2
          THEN (IF (e - 1) % 2 = 0 THEN 2 * a[i].re ELSE 2 * a[i].im)
          ELSE 0) + ShiftOf(e, a, modes, i + 1)

DisplacesModes(s) ==
    /\ s.op = "displace"
    /\ Len(s.R0) = 2 * s.N0
    /\ Len(s.a) = Len(s.modes)
    /\ Len(s.modes) >= 1
    /\ InRange(s.modes, s.N0)

\* C4: displace(alpha, modes) on any state adds exactly 2 Re(alpha) and
\* 2 Im(alpha) to the two R entries of each targeted mode and leaves V and
\* the other entries of R as they were.
C4_DisplaceShiftsMean ==
    \A k \in 1..Len(trail) :
        DisplacesModes(trail[k]) =>
            /\ trail[k].ok
            /\ trail[k].V1 = trail[k].V0
            /\ \A e \in 1..Len(trail[k].R0) :
                 trail[k].R1[e] = trail[k].R0[e] + ShiftOf(e, trail[k].a, trail[k].modes, 1)

\* ---- C5
\* the spec's beam-splitter matrix on N modes for modes i, j and transmissivity tau
SpecBS(N, i, j, tau) ==
    Tup([r \in 1..(2 * N) |-> Tup([c \in 1..(2 * N) |->
        LET mr == (r - 1) \div 2
            mc == (c - 1) \div 2
        IN  IF (r - 1) % 2 # (c - 1) % 2 THEN 0
            ELSE IF mr = mc THEN (IF mr \in {i, j} THEN np_sqrt(tau) ELSE Q)
            ELSE IF mr = i /\ mc = j THEN np_sqrt(Q - tau)
            ELSE IF mr = j /\ mc = i THEN -np_sqrt(Q - tau)
            ELSE 0])])

ScalarBeamSplitter(s) ==
    /\ s.op = "beam_splitter"
    /\ s.kind = "scalar"
    /\ s.a[1] \in 0..Q
    /\ Len(s.R0) = 2 * s.N0
    /\ Rows(s.V0) = 2 * s.N0
    /\ Cols(s.V0) = 2 * s.N0
    /\ Len(s.modes) = 2
    /\ s.modes[1] # s.modes[2]
    /\ InRange(s.modes, s.N0)

\* C5: beam_splitter(tau, [i, j]) with a scalar tau in [0, 1] and distinct
\* in-range i, j completes and sets R to BS.R and V to BS.V.BS^T.
C5_ScalarTau ==
    \A k \in 1..Len(trail) :
        ScalarBeamSplitter(trail[k]) =>
            LET s == trail[k]
                BS == SpecBS(s.N0, s.modes[1], s.modes[2], s.a[1])
            IN  /\ s.ok
                /\ s.R1 = MatVec(BS, s.R0)
                /\ s.V1 = MatMul(MatMul(BS, s.V0), Transpose(BS))

\* ---- C6
Negated(a, b) ==
    /\ Len(a) = Len(b)
    /\ \A i \in 1..Len(a) : b[i].re = -a[i].re /\ b[i].im = -a[i].im

\* C6: displace(alpha, modes) followed by displace(-alpha, modes) on the same
\* state returns R to its value before the first call, V unchanged throughout.
C6_DisplaceRoundTrip ==
    \A k \in 1..(Len(trail) - 1) :
        (/\ DisplacesModes(trail[k])
         /\ trail[k + 1].op = "displace"
         /\ trail[k + 1].self = trail[k].self
         /\ trail[k + 1].modes = trail[k].modes
         /\ Negated(trail[k].a, trail[k + 1].a)) =>
            /\ trail[k + 1].ok
            /\ trail[k + 1].R1 = trail[k].R0
            /\ trail[k + 1].V1 = trail[k].V0

\* ---- C7
\* C7: partial_trace(indices) with distinct in-range indices, at most N_modes
\* of them, returns a state of N_modes - len(indices) modes whose R and V
\* are the blocks of the surviving modes in ascending mode order.
C7_PartialTraceBlocks ==
    (/\ last.op = "partial_trace"
     /\ WellFormed(Parent)
     /\ Distinct(last.idx)
     /\ InRange(last.idx, Parent.N_modes)
     /\ Len(last.idx) <= Parent.N_modes) =>
        LET kept == (0..(Parent.N_modes - 1)) \ {last.idx[k] : k \in 1..Len(last.idx)}
            n == Parent.N_modes - Len(last.idx)
        IN  /\ last.ok
            /\ Result.N_modes = n
            /\ Len(Result.R) = 2 * n
            /\ Rows(Result.V) = 2 * n
            /\ \A k \in 1..n : BlockR(Result.R, k - 1) = BlockR(Parent.R, Kth(kept, k))
            /\ \A k, l \in 1..n :
                 BlockV(Result.V, k - 1, l - 1) = BlockV(Parent.V, Kth(kept, k), Kth(kept, l))

\* ---- C8
\* C8: only_modes(indices) raises if indices is empty or longer than N_modes;
\* otherwise, for in-range indices, it returns a state of len(indices) modes
\* whose k-th mode is the parent's mode indices[k]: R block k is the parent's
\* R block indices[k], V block (k, l) the parent's V block (indices[k], indices[l]).
C8_OnlyModesOrder ==
    last.op = "only_modes" =>
        /\ (Len(last.idx) = 0 \/ Len(last.idx) > Parent.N_modes) => ~last.ok
        /\ (/\ Len(last.idx) \in 1..Parent.N_modes
            /\ InRange(last.idx, Parent.N_modes)) =>
               /\ last.ok
               /\ Result.N_modes = Len(last.idx)
               /\ Len(Result.R) = 2 * Len(last.idx)
               /\ Rows(Result.V) = 2 * Len(last.idx)
               /\ Cols(Result.V) = 2 * Len(last.idx)
               /\ \A k \in 1..Len(last.idx) :
                    BlockR(Result.R, k - 1) = BlockR(Parent.R, last.idx[k])
               /\ \A k, l \in 1..Len(last.idx) :
                    BlockV(Result.V, k - 1, l - 1)
                      = BlockV(Parent.V, last.idx[k], last.idx[l])

\* two modes were extracted in descending order from a state whose blocks differ
C8_Witness ==
    /\ last.op = "only_modes"
    /\ last.ok
    /\ Len(last.idx) = 2
    /\ last.idx[1] > last.idx[2]
    /\ InRange(last.idx, Parent.N_modes)
    /\ BlockR(Parent.R, last.idx[1]) # BlockR(Parent.R, last.idx[2])
    /\ BlockR(Result.R, 0) = BlockR(Parent.R, last.idx[1])

\* ---- C9
\* C9: partial_trace and only_modes raise whenever some given index is not a
\* mode index in 0..N_modes-1 (negative, or >= N_modes), also when there are
\* no more indices than modes.
C9_BadIndexRaises ==
    (/\ last.op \in {"partial_trace", "only_modes"}
     /\ WellFormed(Parent)
     /\ ~InRange(last.idx, Parent.N_modes)) => ~last.ok

\* ---- C10
RECURSIVE SumModes(_)
SumModes(rhos) == IF rhos = <<>> THEN 0 ELSE Head(rhos).N_modes + SumModes(Tail(rhos))
RECURSIVE ConcatR(_)
ConcatR(rhos) == IF rhos = <<>> THEN <<>> ELSE Head(rhos).R \o ConcatR(Tail(rhos))

\* entry (i, j) of the block-diagonal matrix of the states' V, 0 off the blocks
RECURSIVE BlockDiagEntry(_, _, _)
BlockDiagEntry(rhos, i, j) ==
    IF rhos = <<>> THEN 0
    ELSE LET d == Rows(Head(rhos).V)
         IN  IF i <= d /\ j <= d THEN Head(rhos).V[i][j]
             ELSE IF i <= d \/ j <= d THEN 0
             ELSE BlockDiagEntry(Tail(rhos), i - d, j - d)

\* the base state followed by the operands of a tensor_product call
Factors(call, heap) ==
    <<heap[call.self]>> \o Tup([k \in 1..Len(call.list) |-> heap[call.list[k]]])

\* C10: tensor_product(rho_list) returns a state whose R is the base state's R
\* followed by each operand's R in list order, whose V is block-diagonal in
\* the same order, and whose N_modes is the sum of all mode counts; the base
\* state and the operands are as they were.
C10_TensorProduct ==
    [][last'.op = "tensor_product" =>
         /\ last'.ok
         /\ HeapKept
         /\ last'.res = Len(objs) + 1
         /\ LET f == Factors(last', objs)
                r == objs'[last'.res]
            IN  /\ r.R = ConcatR(f)
                /\ Rows(r.V) = Len(r.R)
                /\ \A i \in 1..Rows(r.V) : \A j \in 1..Rows(r.V) :
                     r.V[i][j] = BlockDiagEntry(f, i, j)
                /\ r.N_modes = SumModes(f)]_vars


\* ---- C11
\* the program has recombined rho_A and rho_B for a valid partition: T is a
\* list of distinct modes of rho, not empty and not all of them
Recombined ==
    /\ last.op = "tensor_product"
    /\ last.ok
    /\ Len(objs) = 4
    /\ WellFormed(objs[1])
    /\ Distinct(last.idx)
    /\ InRange(last.idx, objs[1].N_modes)
    /\ Len(last.idx) \in 1..(objs[1].N_modes - 1)

\* position k of the recombined state holds this mode of rho: the surviving
\* modes in ascending order, then the modes of T in the order given
ModeAt(k) ==
    LET N == objs[1].N_modes
        kept == (0..(N - 1)) \ {last.idx[q] : q \in 1..Len(last.idx)}
    IN  IF k <= N - Len(last.idx) THEN Kth(kept, k) ELSE last.idx[k - (N - Len(last.idx))]

LastQuery == trail[Len(trail)]
Called(op) == trail # <<>> /\ LastQuery.op = op
\* the engine as its constructor left it
Fresh(e) == gaussian_dynamics(e.A, e.D, e.N, e.initial_state)
Completed(n) == [status |-> 0, cols |-> n]

\* C12: after every successful run(t_grid) the stored series are aligned with
\* that grid: as many states, columns of R and matrices in V as timestamps,
\* states[k] built from R[:, k] and V[k]; and they are those of this run alone,
\* whatever an earlier run had stored
C12_RunAligned ==
    (Called("run") /\ LastQuery.ok) =>
        LET n == Len(LastQuery.grid)
            alone == run(Fresh(dyn), LastQuery.grid, Completed(n), Completed(n)).self
        IN  /\ dyn.t = LastQuery.grid
            /\ Len(dyn.state) = n /\ Len(dyn.R) = n /\ Len(dyn.V) = n
            /\ \A k \in 1..n : /\ dyn.state[k].ok
                               /\ dyn.state[k].R = dyn.R[k]
                               /\ dyn.state[k].V = dyn.V[k]
            /\ dyn.R = alone.R /\ dyn.V = alone.V /\ dyn.state = alone.state

\* a successful run on a grid follows a successful run on a different grid
C12_Witness ==
    /\ Len(trail) >= 2
    /\ Called("run") /\ LastQuery.ok
    /\ trail[Len(trail) - 1].op = "run" /\ trail[Len(trail) - 1].ok
    /\ trail[Len(trail) - 1].grid # LastQuery.grid
    /\ Len(dyn.state) = Len(LastQuery.grid)

\* C13: run is all-or-nothing: when the Langevin or the Lyapunov solver
\* reports a failure, run raises the integration-failure error and the stored
\* R, V, time grid and states are the same as before the failed call
C13_RunAllOrNothing ==
    (Called("run") /\ ~LastQuery.ok) =>
        /\ LastQuery.err = "AssertionError"
        /\ dyn.t = LastQuery.before.t
        /\ dyn.R = LastQuery.before.R
        /\ dyn.V = LastQuery.before.V
        /\ dyn.state = LastQuery.before.state

\* C14: when the drift is a callable, steady_state(A_0, A_c, A_s, omega)
\* returns, without raising, exactly the state that
\* floquet(A_0, A_c, A_s, omega) returns
C14_SteadyStateDelegates ==
    (Called("steady_state") /\ is_a_function(dyn.A)
        /\ floquet(LastQuery.before, LastQuery.args).ok) =>
            /\ LastQuery.ok
            /\ LastQuery.ss = floquet(LastQuery.before, LastQuery.args).ss

\* every root of the characteristic polynomial of M has real part <= 0: the
\* diagonal of a diagonal matrix, and trace <= 0 with determinant >= 0 for a
\* real 2x2 one
AllRealPartsNonPositive(M) ==
    IF IsDiagonal(M) THEN \A i \in 1..Rows(M) : M[i][i] <= 0
    ELSE M[1][1] + M[2][2] <= 0 /\ Det(M) >= 0

\* C15: the constructor sets is_stable exactly when A is a constant matrix,
\* to True iff every eigenvalue of A has real part <= 0; with a callable A
\* nothing is computed and is_stable is not set
C15_EagerStability ==
    IF is_a_function(dyn.A) THEN "is_stable" \notin dyn.attrs
    ELSE /\ "is_stable" \in dyn.attrs
         /\ dyn.is_stable <=> AllRealPartsNonPositive(dyn.A.a0)

\* a freshly constructed engine whose constant drift has a purely imaginary
\* pair of eigenvalues, found stable
C15_Witness ==
    /\ trail = <<>>
    /\ ~is_a_function(dyn.A)
    /\ dyn.A.a0[1][1] + dyn.A.a0[2][2] = 0 /\ Det(dyn.A.a0) > 0
    /\ dyn.is_stable

\* some root of the characteristic polynomial of M has real part >= 0
SomeRealPartNonNegative(M) ==
    IF IsDiagonal(M) THEN \E i \in 1..Rows(M) : M[i][i] >= 0
    ELSE ~(M[1][1] + M[2][2] < 0 /\ Det(M) > 0)

\* C16: for a constant drift A with an eigenvalue of non-negative real part
\* (zero or positive), steady_state fails with the instability error, and no
\* steady state is stored or returned
C16_UnstableRefused ==
    (Called("steady_state") /\ ~is_a_function(dyn.A)
        /\ SomeRealPartNonNegative(dyn.A.a0)) =>
            /\ ~LastQuery.ok
            /\ LastQuery.err = "AssertionError"
            /\ "steady_state_internal" \notin dyn.attrs

\* the k-th remembered call is a steady-state query
IsQuery(k) == trail[k].op \in {"steady_state", "floquet"}
\* what the query of the k-th call gives on the engine as constructed
OnFresh(k) ==
    IF trail[k].op = "steady_state" THEN steady_state(Fresh(dyn), trail[k].args)
    ELSE floquet(Fresh(dyn), trail[k].args)
SameOutcome(q, r) == q.ok = r.ok /\ q.err = r.err /\ q.ss.R = r.ss.R /\ q.ss.V = r.ss.V

\* C17: steady_state and floquet are independent, idempotent queries: in any
\* interleaving with run the outcome of the query just made is the one it has
\* on the freshly constructed engine, it is the outcome of every earlier call
\* of it with the same arguments (the same R and V), and the query has not
\* changed the stored time grid, R, V or states
C17_QueriesIndependent ==
    (trail # <<>> /\ IsQuery(Len(trail))) =>
        /\ SameOutcome(LastQuery, OnFresh(Len(trail)))
        /\ \A j \in 1..Len(trail) :
             (trail[j].op = LastQuery.op /\ trail[j].args = LastQuery.args) =>
                 SameOutcome(trail[j], LastQuery)
        /\ dyn.t = LastQuery.before.t
        /\ dyn.N_time = LastQuery.before.N_time
        /\ dyn.R = LastQuery.before.R
        /\ dyn.V = LastQuery.before.V
        /\ dyn.state = LastQuery.before.state

\* a query returns a state on an engine that holds the series of a run
C17_Witness ==
    /\ Len(trail) >= 2
    /\ trail[Len(trail) - 1].op = "run" /\ trail[Len(trail) - 1].ok
    /\ IsQuery(Len(trail)) /\ LastQuery.ok /\ LastQuery.ss.ok
    /\ dyn.state # <<>> /\ dyn.R # <<>>

\* sum of the magnitudes of row i of M
RowSum(M, i) == SumSeq([k \in 1..Cols(M) |-> Abs(M[i][k])])
\* entry (i, j) of A V + V A^T + D, and entry i of A R + N, in units 1/Q^2
LyapunovResidual(A, V, D, i, j) ==
    SumSeq([k \in 1..Rows(A) |-> A[i][k] * V[k][j] + V[i][k] * A[j][k]]) + Q * D[i][j]
LangevinResidual(A, R, N, i) ==
    SumSeq([k \in 1..Rows(A) |-> A[i][k] * R[k]]) + Q * N[i]

\* C18: for a constant drift whose eigenvalues all have negative real part,
\* steady_state returns a state with A V + V A^T + D = 0 and A R + N = 0, up
\* to half a grid step in each entry of V and R; for A = diag(-1,-1,-1,-1),
\* D = I_4, N = 0 started in two vacua, is_stable holds and the state has
\* V = 0.5 I_4 (to the nearest grid value) and R = 0
C18_SteadyStateSolves ==
    (Called("steady_state") /\ ~is_a_function(dyn.A)
        /\ ~SomeRealPartNonNegative(dyn.A.a0)) =>
            LET A == dyn.A.a0
                ss == LastQuery.ss
                M == Rows(A)
            IN  /\ dyn.is_stable /\ LastQuery.ok /\ ss.ok
                /\ dyn.steady_state_internal = ss
                /\ \A i, j \in 1..M :
                     2 * Abs(LyapunovResidual(A, ss.V, dyn.D, i, j))
                         <= RowSum(A, i) + RowSum(A, j)
                /\ \A i \in 1..M :
                     2 * Abs(LangevinResidual(A, ss.R, dyn.N, i)) <= RowSum(A, i)
                /\ (A = Neg(Eye(4)) /\ dyn.D = Eye(4) /\ dyn.N = <<0, 0, 0, 0>>) =>
                     /\ ss.R = <<0, 0, 0, 0>>
                     /\ \A i, j \in 1..4 :
                          Abs(2 * ss.V[i][j] - (IF i = j THEN Q ELSE 0)) <= 1

\* steady_state has returned on the two-mode engine with drift diag(-1,-1,-1,-1)
C18_Witness ==
    /\ Called("steady_state") /\ LastQuery.ok
    /\ dyn.A.a0 = Neg(Eye(4)) /\ dyn.initial_state.N_modes = 2
    /\ LastQuery.ss.N_modes = 2

\* ---- the logarithmic negativity
\* the latest call of logarithmic_negativity and its receiver
Measured == trail # <<>> /\ LastQuery.op = "logarithmic_negativity"
Receiver == objs[LastQuery.self]

\* C19: logarithmic_negativity returns a real number >= 0 for every two-mode
\* covariance matrix it accepts, also when the computed ni is negative, and it
\* returns 0 for the tensor product of two vacua
C19_NegativityNonNegative ==
    (Measured /\ LastQuery.ok) =>
        /\ LastQuery.LN.kind = "num" /\ LastQuery.LN.val >= 0
        /\ (Receiver.N_modes = 2 /\ Receiver.V = Eye(4)) => LastQuery.LN.val = 0

\* C20: logarithmic_negativity succeeds only if the state has exactly two
\* modes or an explicit pair of indices is given; it fails when the state has
\* not exactly two modes and no indices are given, and it fails whenever more
\* than two indices are given, whatever the number of modes
C20_NegativityArguments ==
    Measured =>
        /\ LastQuery.ok =>
             (Receiver.N_modes = 2 \/ (LastQuery.given /\ Len(LastQuery.indexes) = 2))
        /\ (Receiver.N_modes # 2 /\ ~LastQuery.given) => ~LastQuery.ok
        /\ (LastQuery.given /\ Len(LastQuery.indexes) > 2) => ~LastQuery.ok

\* ---- the single-mode factory
\* the latest call is a tagged (or argument-free) construction
Tagged == last.op = "gaussian_state" /\ (last.args.n = 0 \/ last.args.a0.t = "str")

\* C21: the single-mode factory produces the specified moments with
\* N_modes = 1: no arguments and "vacuum" give R = [0,0], V = I_2; thermal gives
\* R = [0,0], V = (2 nbar + 1) I_2 (the vacuum for nbar = 0); coherent gives
\* R = 2 [Re alpha, Im alpha], V = I_2; squeezed gives R = [0,0],
\* V = diag(e^{-2r}, e^{2r})
C21_FactoryMoments ==
    (Tagged /\ last.ok) =>
        LET name == last.args.a0.s
            par == last.args.a1
        IN  /\ Result.N_modes = 1
            /\ (last.args.n = 0 \/ name = "vacuum") =>
                 Result.R = <<0, 0>> /\ Result.V = Eye(2)
            /\ name = "thermal" =>
                 /\ Result.R = <<0, 0>>
                 /\ Result.V = Diag2(2 * par.re + Q, 2 * par.re + Q)
                 /\ par.re = 0 => Result.V = Eye(2)
            /\ name = "coherent" =>
                 Result.R = <<2 * par.re, 2 * par.im>> /\ Result.V = Eye(2)
            /\ name = "squeezed" =>
                 /\ Result.R = <<0, 0>>
                 /\ Result.V = Diag2(np_exp(-2 * par.re), np_exp(2 * par.re))

\* gaussian_state("coherent", 1+0j) has been built, with R = [2, 0]
C21_Witness ==
    /\ Tagged /\ last.ok
    /\ last.args.a0.s = "coherent" /\ last.args.a1 = PyComplex(Q, 0)
    /\ Result.R = <<2 * Q, 0>>

\* the constructor arguments that the specification rejects
Rejected(args) ==
    IF args.n > 0 /\ args.a0.t = "str"
    THEN \/ args.a0.s \notin {"vacuum", "thermal", "coherent", "squeezed"}
         \/ /\ args.a0.s # "vacuum"
            /\ (args.n < 2 \/ args.a1.t \notin {"int", "float", "complex"})
         \/ args.a0.s = "thermal" /\ args.a1.t \in {"int", "float"} /\ args.a1.re < 0
         \/ args.a0.s = "squeezed" /\ args.a1.im # 0
    ELSE args.n > 0 /\ ~(args.n = 2 /\ args.a0.t = "ndarray" /\ args.a1.t = "ndarray")

\* C22: construction fails, producing no state, for an unrecognized name, a
\* non-vacuum name without a parameter or with a non-numeric one, thermal with
\* nbar < 0, squeezed with a non-zero imaginary part, and for any input that is
\* neither empty, a name, nor a pair of arrays
C22_BadConstructionFails ==
    [][(last'.op = "gaussian_state" /\ Rejected(last'.args)) =>
           (~last'.ok /\ objs' = objs)]_vars

\* a rejected tagged construction has been attempted
C22_Witness ==
    /\ last.op = "gaussian_state" /\ ~last.ok
    /\ last.args.a0.s = "squeezed" /\ last.args.a1.im # 0


\* ---------------------------------------------------------------- C23
\* a remembered call whose parameter list and mode list differ in length
LengthMismatch(s) ==
    s.op \in {"displace", "squeeze", "rotate"} /\ Len(s.modes) # Len(s.a)
\* a remembered call on a pair of modes given other than two indices
NotTwoModes(s) ==
    s.op \in {"beam_splitter", "two_mode_squeezing"} /\ Len(s.modes) # 2
\* the receiver of the remembered call is as it was when the call began
ReceiverKept(s) ==
    /\ s.R1 = s.R0 /\ s.V1 = s.V0
    /\ objs[s.self].R = s.R0 /\ objs[s.self].V = s.V0
    /\ objs[s.self].N_modes = s.N0 /\ objs[s.self].Omega = s.Omega0

\* C23: displace, squeeze and rotate fail when the parameter list and the
\* mode list differ in length, beam_splitter and two_mode_squeezing fail
\* unless two mode indices are given, and the failed call leaves R, V, Omega
\* and N_modes of its receiver as they were
C23_ValidateBeforeMutating ==
    \A k \in 1..Len(trail) :
        (LengthMismatch(trail[k]) \/ NotTwoModes(trail[k]))
            => (~trail[k].ok /\ k = Len(trail) /\ ReceiverKept(trail[k]))

\* a squeeze went through, then rotate was given one angle for two modes
C23_Witness ==
    /\ Len(trail) = 2
    /\ trail[1].op = "squeeze" /\ trail[1].ok /\ trail[1].V1 # trail[1].V0
    /\ trail[2].op = "rotate" /\ LengthMismatch(trail[2]) /\ ~trail[2].ok


\* ---------------------------------------------------------------- C24
\* the conditional moments with the pseudo-inverse diag(1/Var(x_B), 0), Var(x_B)
\* the first diagonal entry of the measured mode's covariance matrix
PositionOnly(self, rho_B, rho_A, R_m) ==
    SchurUpdate(rho_A,
                GetSlice2(self.V, 0, 2 * rho_A.N_modes, 2 * rho_A.N_modes,
                          2 * rho_A.N_modes + 2 * rho_B.N_modes),
                Diag2(Div(Q, rho_B.V[1][1]), 0),
                VecSub(rho_B.R, R_m))
SameMoments(a, b) == b.ok /\ a.R = b.R /\ a.V = b.V

\* C24: measurement_homodyne conditions on the position quadrature of the
\* measured mode: the returned moments are those of the pseudo-inverse
\* diag(1/V_B[0,0], 0), the reciprocal of the position variance of B
C24_HomodynePositionVariance ==
    (last.op = "measurement_homodyne" /\ last.ok)
        => \E arg \in OutcomeArgs :
              /\ ObjList(arg) = last.list
              /\ idx_modes(Parent, Len(arg.R)) = last.idx
              /\ \E rho_B \in {only_modes(Parent, last.idx)} :
                    rho_B.V[1][1] # 0
                        => SameMoments(Result,
                                       PositionOnly(Parent, rho_B,
                                                    partial_trace(Parent, last.idx),
                                                    arg.R))


\* ---------------------------------------------------------------- C25
\* C25: every call of langevin_semi_classical terminates, having stored the
\* ensemble mean R_semi_classical for the N_time stamps of the grid it was given
C25_SemiClassicalCompletes ==
    \A k \in 1..Len(trail) :
        trail[k].op = "langevin_semi_classical"
            => /\ trail[k].ok
               /\ "R_semi_classical" \in trail[k].after.attrs
               /\ trail[k].after.N_time = Len(trail[k].grid)


\* ---------------------------------------------------------------- C26
\* the latest call is a completed build_states, called by run or directly
StatesBuilt == trail # <<>> /\ LastQuery.op \in {"run", "build_states"} /\ LastQuery.ok

\* C26: whenever build_states completes, states has one entry per stamp of
\* the stored grid, and states[k] holds the mean and the covariance matrix of
\* the stamp t[k] of that grid
C26_StatesOnOneGrid ==
    StatesBuilt => /\ Len(dyn.state) = Len(dyn.t)
             /\ \A k \in 1..Len(dyn.state) :
                   /\ dyn.state[k].R
                        = IntegrateR(dyn.A, dyn.N, dyn.initial_state.R, dyn.t, 1)[k]
                   /\ dyn.state[k].V
                        = IntegrateV(dyn.A, dyn.D, dyn.initial_state.V, dyn.t, 1)[k]


\* ---------------------------------------------------------------- C27
\* C27: the initial state of every constructed engine has the size of the
\* system: 2 * initial_state.N_modes = len(D) = Size_matrices
C27_InitialStateFits ==
    /\ dyn.Size_matrices = Len(dyn.D)
    /\ 2 * dyn.initial_state.N_modes = dyn.Size_matrices


\* ---------------------------------------------------------------- C28
Symplectic == {"squeeze", "rotate", "beam_splitter", "two_mode_squeezing"}
\* the modes of an N-mode state that the call named
Targets(s) == {s.modes[k] : k \in 1..Len(s.modes)}
\* the remembered call left the moments of every mode it did not name alone
FrameKept(s) ==
    /\ Len(s.R1) = Len(s.R0) /\ Rows(s.V1) = Rows(s.V0) /\ Cols(s.V1) = Cols(s.V0)
    /\ \A m \in (0..(s.N0 - 1)) \ Targets(s) :
          /\ BlockR(s.R1, m) = BlockR(s.R0, m)
          /\ \A n \in (0..(s.N0 - 1)) \ Targets(s) : BlockV(s.V1, m, n) = BlockV(s.V0, m, n)

\* C28: a successful squeeze, rotate, beam_splitter or two_mode_squeezing on
\* the modes M changes the receiver itself, keeps its N_modes and Omega, keeps
\* R of every mode outside M and every block of V between modes outside M
C28_SymplecticFrame ==
    \A k \in 1..Len(trail) :
        (trail[k].op \in Symplectic /\ trail[k].ok)
            => /\ FrameKept(trail[k])
               /\ Len(objs) = 1
               /\ objs[trail[k].self].N_modes = trail[k].N0
               /\ objs[trail[k].self].Omega = trail[k].Omega0
               /\ k = Len(trail) => /\ objs[trail[k].self].R = trail[k].R1
                                    /\ objs[trail[k].self].V = trail[k].V1

\* modes 0 and 2 of three were two-mode squeezed: their moments changed
C28_Witness ==
    /\ trail # <<>>
    /\ LastQuery.op = "two_mode_squeezing" /\ LastQuery.ok
    /\ LastQuery.N0 = 3 /\ Targets(LastQuery) = {0, 2}
    /\ BlockV(LastQuery.V1, 0, 2) # BlockV(LastQuery.V0, 0, 2)
    /\ BlockV(LastQuery.V1, 0, 1) # BlockV(LastQuery.V0, 0, 1)
    /\ objs[LastQuery.self].V = LastQuery.V1


\* ---------------------------------------------------------------- C29
IsSymmetric(V) ==
    /\ Rows(V) = Cols(V)
    /\ \A i, j \in 1..Rows(V) : V[i][j] = V[j][i]

\* C29: starting from a symmetric V, the covariance matrix stays symmetric
\* under displace, squeeze, rotate, beam_splitter and two_mode_squeezing, and
\* every state returned by partial_trace, only_modes or tensor_product has a
\* symmetric covariance matrix
C29_SymmetryKept == \A i \in 1..Len(objs) : IsSymmetric(objs[i].V)

\* two modes were two-mode squeezed, then only_modes returned them in
\* descending order, correlations included
C29_Witness ==
    /\ Len(trail) = 2 /\ Len(objs) = 2
    /\ trail[1].op = "two_mode_squeezing" /\ trail[1].ok /\ trail[1].V1 # trail[1].V0
    /\ trail[2].op = "only_modes" /\ trail[2].ok /\ trail[2].modes = <<trail[2].N0 - 1, 0>>
    /\ BlockV(objs[2].V, 0, 1) = BlockV(objs[1].V, trail[2].N0 - 1, 0)
    /\ BlockV(objs[2].V, 0, 1) # Zeros(2, 2)
    /\ BlockV(objs[2].V, 0, 1) # BlockV(trail[1].V0, trail[2].N0 - 1, 0)


\* ---------------------------------------------------------------- C30
\* C30: from 2 * N_modes magnitudes in which every symplectic eigenvalue
\* occurs an even number of times, the loop returns N_modes values, each
\* eigenvalue half as often as it occurred, and leaves no magnitude over
C30_PairRemoval ==
    last.op = "symplectic_eigenvalues"
        => /\ last.ok
           /\ 2 * Len(last.list) = Len(last.par)
           /\ \A v \in Magnitudes : 2 * Occurrences(last.list, v) = Occurrences(last.par, v)
           /\ trail[1].lambda_0 = <<>>

\* two close eigenvalues, interleaved, came out once each
C30_Witness ==
    /\ last.op = "symplectic_eigenvalues"
    /\ last.par = <<Q, Q + 1, Q, Q + 1>>
    /\ last.list = <<Q, Q + 1>>

=============================================================================
